---- MODULE Spec2Model ----
(***************************************************************************)
(* A model of the geospatial query-decomposition core of the APEX project  *)
(* loader: the adaptive intersect query of district_queries.py (full call, *)
(* route chunk ladder, polygon slice ladder, merge), its route chunker and *)
(* polygon slicer, and the Cohen-Sutherland polyline clipper of            *)
(* agol/agol_util.py.                                                      *)
(*                                                                         *)
(* Python lists are sequences (index 0 of the code is index 1 here), a     *)
(* string is a sequence of one-character strings (the tag "<br>" stands    *)
(* for itself), None is the one-element sequence <<"None">>, and a         *)
(* coordinate pair [lat, lon] is the tuple <<lat, lon>>.                   *)
(***************************************************************************)
EXTENDS Integers, Sequences, FiniteSets, TLC

VARIABLES
    \* ---- _agol_intersect_adaptive: arguments, session state, collaborator
    geometry,                 \* the geometry argument
    enable_route_chunking,    \* argument
    enable_polygon_chunking,  \* argument
    session_state,            \* the four st.session_state knobs
    remote,                   \* the remote layer: size limit, flakiness, features
    \* ---- _agol_intersect_adaptive: locals
    pc,                       \* position in the function
    current,                  \* route ladder: points per chunk
    slices,                   \* polygon ladder: slice count
    geoms,                    \* chunks / pieces of the running attempt
    idx,                      \* number of chunks of the attempt already queried
    merged_ids,
    merged_labels_list,
    last_error,
    outcome,                  \* what the call gave its caller: a result or an error
    \* ---- observation of one run (not program state)
    full_call,                \* the full call: "pending", "returned" or "raised"
    calls,                    \* the _call_intersect calls of the running attempt
    attempts,                 \* every ladder value an attempt was started with
    \* ---- the pure functions, applied to drawn inputs
    fn,                       \* which function / stage
    inp,                      \* its input
    out                       \* its output

qvars == <<geometry, enable_route_chunking, enable_polygon_chunking, session_state,
           remote, pc, current, slices, geoms, idx, merged_ids, merged_labels_list,
           last_error, outcome, full_call, calls, attempts>>
fvars == <<fn, inp, out>>
vars == <<qvars, fvars>>

\* None, comparable with every string of the model
None == <<"None">>

(***************************************************************************)
(* Bounds of the model and constants of the program.                       *)
(***************************************************************************)
\* agol_max_points_per_query, agol_min_points_per_query defaults
DefaultMaxPoints == 300
DefaultMinPoints == 15
\* agol_polygon_initial_slices, agol_polygon_max_slices defaults
DefaultInitialSlices == 4
DefaultMaxSlices == 64
\* the overlap _chunk_route_geometry asks _chunk_points for
ChunkOverlap == 1
\* the floor the function's docstring and the scenario of the specification name
DocMinPoints == 50

\* number of points of the long route / ring of the query model
LongLen == 76
\* number of points of the short route / ring of the query model
ShortLen == 3
\* number of points of a route a small chunk size splits
MidLen == 7
\* a small chunk size, so that short routes are chunked too
SmallMaxPoints == 5
\* points per request up to which the size-limited layer answers
ScenarioLimit == 50
\* attempts after which the model stops following a ladder
MaxAttempts == 9
\* longest path and largest number of paths of a route given to the chunker
MaxPathLen == 6
MaxPaths == 2
\* longest path of a polyline given to the clipper
MaxClipLen == 3
\* largest coordinate of a polygon given to the slicer
SliceGrid == 2
\* get_route_segment: default min_points, default max_point_reduction (in
\* percent) and the number of times a guardrail halves the tolerance
DefaultSimplifyMinPoints == 50
DefaultMaxReductionPct == 90
BackoffTries == 6
\* most vertices of a small line given to the simplifier, and the vertices
\* of the long one
MaxLinePoints == 5
ScenarioPoints == 1000

(***************************************************************************)
(* Helpers: common.                                                        *)
(***************************************************************************)
RECURSIVE UniqueLoop(_, _, _)
UniqueLoop(items, seen, acc) ==
    IF items = <<>> THEN acc
    ELSE LET x == Head(items) IN
         IF x = None \/ x \in seen
         THEN UniqueLoop(Tail(items), seen, acc)
         ELSE UniqueLoop(Tail(items), seen \cup {x}, Append(acc, x))

\* a merge that only skips None
_unique_preserve_order_KeepAll(items) == SelectSeq(items, LAMBDA x : x /= None)
\* first-seen order, None skipped
_unique_preserve_order(items) == UniqueLoop(items, {}, <<>>)

\* a list given by its elements, built once
List(f) == f \o <<>>

RECURSIVE Flatten(_)
Flatten(ss) == IF ss = <<>> THEN <<>> ELSE Head(ss) \o Flatten(Tail(ss))

Range(s) == {s[i] : i \in 1..Len(s)}

NoDup(s) == \A i, j \in 1..Len(s) : i /= j => s[i] /= s[j]

Count(s, x) == Cardinality({i \in 1..Len(s) : s[i] = x})

\* str.join
RECURSIVE Join(_, _)
Join(sep, strs) ==
    IF strs = <<>> THEN <<>>
    ELSE IF Len(strs) = 1 THEN strs[1]
    ELSE strs[1] \o sep \o Join(sep, Tail(strs))

\* str.strip
RECURSIVE LStrip(_)
LStrip(s) == IF s /= <<>> /\ Head(s) \in {" ", "\n"} THEN LStrip(Tail(s)) ELSE s
RECURSIVE RStrip(_)
RStrip(s) ==
    IF s /= <<>> /\ s[Len(s)] \in {" ", "\n"} THEN RStrip(SubSeq(s, 1, Len(s) - 1)) ELSE s
Strip(s) == RStrip(LStrip(s))

\* re.split on a run of delimiter characters / str.split on one character
RECURSIVE SplitOn(_, _, _, _)
SplitOn(s, delims, cur, acc) ==
    IF s = <<>> THEN Append(acc, cur)
    ELSE IF Head(s) \in delims
         THEN SplitOn(Tail(s), delims, <<>>, Append(acc, cur))
         ELSE SplitOn(Tail(s), delims, Append(cur, Head(s)), acc)

RECURSIVE ExplodeParts(_)
ExplodeParts(parts) ==
    IF parts = <<>> THEN <<>>
    ELSE LET p == Strip(Head(parts))
             qs == IF p = <<>> THEN <<>> ELSE SplitOn(p, {","}, <<>>, <<>>)
             kept == SelectSeq(List([i \in 1..Len(qs) |-> Strip(qs[i])]), LAMBDA q : q /= <<>>)
         IN kept \o ExplodeParts(Tail(parts))

\* <br> variants become newlines, split on newline / semicolon, then on commas
_split_string_values(s) ==
    IF s = <<>> THEN <<>>
    ELSE LET t == List([i \in 1..Len(s) |-> IF s[i] = "<br>" THEN "\n" ELSE s[i]])
         IN ExplodeParts(SplitOn(t, {"\n", ";"}, <<>>, <<>>))

(***************************************************************************)
(* Route (polyline) chunking.                                              *)
(* A geometry is [form, paths]: form names the nesting of the Python       *)
(* value, paths its coordinate lists.                                      *)
(*   "point"  [lat, lon]                 (paths holds the one pair)        *)
(*   "A"      [[lat, lon], ...]                                            *)
(*   "B"      [[[lat, lon], ...], ...]                                     *)
(*   "C"      [[[[lat, lon], ...]], ...]                                   *)
(*   "invalid"  a list that is not empty and holds no coordinate pair,     *)
(*            such as [[]] or ["x"]   (paths is empty)                     *)
(***************************************************************************)
_extract_route_paths(geom) ==
    IF geom.form = "A" THEN [paths |-> geom.paths, ok |-> TRUE]
    ELSE IF geom.form = "B" THEN [paths |-> geom.paths, ok |-> TRUE]
    ELSE IF geom.form = "C"
         THEN LET kept == SelectSeq(geom.paths, LAMBDA p : p /= <<>>)
              IN IF kept /= <<>> THEN [paths |-> kept, ok |-> TRUE]
                 ELSE [paths |-> <<>>, ok |-> FALSE]
    ELSE [paths |-> <<>>, ok |-> FALSE]

\* a chunker whose next segment starts after the previous one's end
NextStart_NoOverlap(end, overlap) == end
\* start = end - overlap
NextStart(end, overlap) == end - overlap

\* a segment end one point further on
SegEnd_OneMore(start, max_points, n) ==
    IF start + max_points + 1 < n THEN start + max_points + 1 ELSE n
\* end = min(start + max_points, n)
SegEnd(start, max_points, n) ==
    IF start + max_points < n THEN start + max_points ELSE n

RECURSIVE ChunkLoop(_, _, _, _)
ChunkLoop(points, max_points, start, segs) ==
    LET n == Len(points)
        end == SegEnd(start, max_points, n)
        seg0 == SubSeq(points, start + 1, end)
        seg == IF Len(seg0) = 1 /\ start > 0 THEN SubSeq(points, start, end) ELSE seg0
        segs1 == Append(segs, seg)
    IN IF end >= n THEN segs1
       ELSE ChunkLoop(points, max_points, NextStart(end, ChunkOverlap), segs1)

_chunk_points(points, max_points) ==
    IF points = <<>> THEN <<>>
    ELSE LET mp == IF max_points < 2 THEN 2 ELSE max_points
         IN IF Len(points) <= mp THEN <<points>>
            ELSE ChunkLoop(points, mp, 0, <<>>)

RECURSIVE ChunkPaths(_, _)
ChunkPaths(paths, max_points) ==
    IF paths = <<>> THEN <<>>
    ELSE LET segs == _chunk_points(Head(paths), max_points)
         IN List([i \in 1..Len(segs) |-> [kind |-> "chunk", paths |-> <<segs[i]>>, scale |-> 1]])
            \o ChunkPaths(Tail(paths), max_points)

\* each chunk is a one-path route; a geometry that is no route, or gives no
\* chunk, is passed through whole
_chunk_route_geometry(route_geom, max_points) ==
    LET r == _extract_route_paths(route_geom)
        whole == <<[kind |-> "whole", paths |-> route_geom.paths, scale |-> 1,
                    form |-> route_geom.form]>>
    IN IF ~r.ok THEN whole
       ELSE LET chunks == ChunkPaths(r.paths, max_points)
            IN IF chunks /= <<>> THEN chunks ELSE whole

(***************************************************************************)
(* Polygon chunking.  A coordinate pair is <<lat, lon>>; shapely works on  *)
(* (x, y) = (lon, lat).  The slicer's arithmetic is exact: a polygon cut   *)
(* into `parts` strips is held on a grid `parts * EdgeLcm` times finer     *)
(* than its own, on which every strip bound and every cut point is a grid  *)
(* point.                                                                  *)
(***************************************************************************)
_extract_polygon_rings(geom) ==
    IF geom.form = "A" THEN [rings |-> geom.paths, ok |-> TRUE]
    ELSE IF geom.form = "B" THEN [rings |-> geom.paths, ok |-> TRUE]
    ELSE [rings |-> <<>>, ok |-> FALSE]

_close_ring(ring) ==
    IF Len(ring) < 3 THEN ring
    ELSE IF ring[1] /= ring[Len(ring)] THEN Append(ring, ring[1])
    ELSE ring

Abs(a) == IF a < 0 THEN -a ELSE a
Min2(a, b) == IF a <= b THEN a ELSE b
Max2(a, b) == IF a >= b THEN a ELSE b

RECURSIVE Gcd(_, _)
Gcd(a, b) == IF b = 0 THEN a ELSE Gcd(b, a % b)
Lcm2(a, b) == IF a = 0 THEN b ELSE IF b = 0 THEN a ELSE (a * b) \div Gcd(a, b)

RECURSIVE SeqMin(_)
SeqMin(s) == IF Len(s) = 1 THEN s[1] ELSE Min2(s[1], SeqMin(Tail(s)))
RECURSIVE SeqMax(_)
SeqMax(s) == IF Len(s) = 1 THEN s[1] ELSE Max2(s[1], SeqMax(Tail(s)))
RECURSIVE SeqLcm(_)
SeqLcm(s) == IF s = <<>> THEN 1 ELSE Lcm2(s[1], SeqLcm(Tail(s)))
RECURSIVE SeqSum(_)
SeqSum(s) == IF s = <<>> THEN 0 ELSE s[1] + SeqSum(Tail(s))

\* twice the signed area of a closed ring of (x, y) vertices, as a fan about
\* its first vertex
Area2(ring) ==
    IF Len(ring) < 3 THEN 0
    ELSE LET o == ring[1]
         IN SeqSum(List([i \in 1..(Len(ring) - 1) |->
                (ring[i][1] - o[1]) * (ring[i + 1][2] - o[2])
              - (ring[i + 1][1] - o[1]) * (ring[i][2] - o[2])]))

\* the point of segment p-q on the line (coordinate `ax`) = c
CutPoint(p, q, ax, c) ==
    LET ot == 3 - ax
        v == p[ot] + ((q[ot] - p[ot]) * (c - p[ax])) \div (q[ax] - p[ax])
    IN IF ax = 1 THEN <<c, v>> ELSE <<v, c>>

\* the part of a convex polygon (open vertex list) on one side of the line
\* (coordinate `ax`) = c: the side >= c when `ge`, the side <= c otherwise
ClipHalf(verts, ax, c, ge) ==
    LET n == Len(verts)
        inside(p) == IF ge THEN p[ax] >= c ELSE p[ax] <= c
        step(i) == LET cur == verts[i]
                       prev == verts[IF i = 1 THEN n ELSE i - 1]
                   IN IF inside(cur)
                      THEN IF inside(prev) THEN <<cur>>
                           ELSE <<CutPoint(prev, cur, ax, c), cur>>
                      ELSE IF inside(prev) THEN <<CutPoint(prev, cur, ax, c)>>
                           ELSE <<>>
    IN IF n = 0 THEN <<>> ELSE Flatten(List([i \in 1..n |-> step(i)]))

RECURSIVE DropRepeats(_)
DropRepeats(s) ==
    IF Len(s) < 2 THEN s
    ELSE IF s[1] = s[2] THEN DropRepeats(Tail(s))
    ELSE <<s[1]>> \o DropRepeats(Tail(s))

\* poly.intersection(box(x0, y0, x1, y1)) for a convex poly whose bounds the
\* box spans across the slicing axis: a closed ring, or <<>> when empty
StripIntersection(verts, ax, lo, hi) ==
    LET cut == DropRepeats(ClipHalf(ClipHalf(verts, ax, lo, TRUE), ax, hi, FALSE))
        ring == IF cut = <<>> THEN <<>>
                ELSE IF cut[1] = cut[Len(cut)] THEN cut ELSE Append(cut, cut[1])
    IN IF Area2(ring) = 0 THEN <<>> ELSE ring

\* rings [lat, lon] -> shapely (x, y): raised when Polygon() rejects the
\* outer ring (fewer than three coordinates), empty when buffer(0) leaves
\* nothing (no area)
_polygon_to_shapely(boundary_geom) ==
    LET r == _extract_polygon_rings(boundary_geom)
        outer == IF r.rings = <<>> THEN <<>> ELSE _close_ring(r.rings[1])
        outer_xy == List([i \in 1..Len(outer) |-> <<outer[i][2], outer[i][1]>>])
    IN IF ~r.ok \/ r.rings = <<>> \/ Len(outer) < 3
       THEN [raised |-> TRUE, ring |-> <<>>, is_empty |-> TRUE]
       ELSE [raised |-> FALSE, ring |-> outer_xy, is_empty |-> (Area2(outer_xy) = 0)]

\* shapely Polygon -> rings [lat, lon]
_shapely_to_boundary_geom(ring) ==
    <<List([i \in 1..Len(ring) |-> <<ring[i][2], ring[i][1]>>])>>

\* the strips the loop `for i in range(parts)` visits
StripRange(parts) == 0..(parts - 1)

\* lower and upper bound of strip i; the last strip ends on the polygon's bound
StripLower(i, lo, d) == lo + i * d
\* strips that all reach the polygon's far bound
StripUpper_ToBound(i, parts, lo, d, hi) == hi
StripUpper(i, parts, lo, d, hi) == IF i < parts - 1 THEN lo + (i + 1) * d ELSE hi

AxisCoords(ring, ax) == List([i \in 1..Len(ring) |-> ring[i][ax]])
Extent(ring, ax) == SeqMax(AxisCoords(ring, ax)) - SeqMin(AxisCoords(ring, ax))

\* width >= height: vertical strips (cut along x), else horizontal (along y)
SliceAxis(ring) == IF Extent(ring, 1) >= Extent(ring, 2) THEN 1 ELSE 2

EdgeLcm(ring, ax) ==
    SeqLcm(List([i \in 1..(Len(ring) - 1) |-> Abs(ring[i + 1][ax] - ring[i][ax])]))

\* the grid on which cutting `ring` into `parts` strips is exact
SliceScale(ring, parts) == parts * EdgeLcm(ring, SliceAxis(ring))

\* the open vertex list of the closed ring, on the fine grid
ScaledVerts(ring, k) ==
    List([i \in 1..(Len(ring) - 1) |-> <<k * ring[i][1], k * ring[i][2]>>])

\* poly.intersection(strip) for strip i; dx = width / parts (dy = height /
\* parts) is EdgeLcm * extent on the fine grid
StripBounds(ring, parts, i) ==
    LET ax == SliceAxis(ring)
        k == SliceScale(ring, parts)
        lo == k * SeqMin(AxisCoords(ring, ax))
        hi == k * SeqMax(AxisCoords(ring, ax))
        d == EdgeLcm(ring, ax) * Extent(ring, ax)
    IN <<StripLower(i, lo, d), StripUpper(i, parts, lo, d, hi)>>

StripPiece(ring, parts, i) ==
    LET b == StripBounds(ring, parts, i)
    IN StripIntersection(ScaledVerts(ring, SliceScale(ring, parts)), SliceAxis(ring),
                         b[1], b[2])

\* the non-empty pieces, in strip order
SlicePieces(ring, parts) ==
    SelectSeq(List([k \in 1..Cardinality(StripRange(parts)) |-> StripPiece(ring, parts, k - 1)]),
              LAMBDA p : p /= <<>>)

PieceGeom(ring, k) ==
    [kind |-> "piece", paths |-> _shapely_to_boundary_geom(ring), scale |-> k]

PieceGeoms(rings, k) == List([i \in 1..Len(rings) |-> PieceGeom(rings[i], k)])

\* the pieces, in strip order, each [kind, paths, scale]: a piece's coordinates
\* are `scale` times the input's
_slice_polygon_into_equal_parts(boundary_geom, parts0) ==
    LET poly == _polygon_to_shapely(boundary_geom)
        parts == IF parts0 < 2 THEN 2 ELSE parts0
    IN IF poly.raised THEN [raised |-> TRUE, pieces |-> <<>>]
       ELSE IF poly.is_empty THEN [raised |-> FALSE, pieces |-> <<>>]
       ELSE [raised |-> FALSE,
             pieces |-> PieceGeoms(SlicePieces(poly.ring, parts),
                                   SliceScale(poly.ring, parts))]

(***************************************************************************)
(* The remote layer and _call_intersect.                                   *)
(* remote = [limit, flaky, features]: a request whose geometry has more    *)
(* than `limit` points is refused, a flaky layer may refuse any request;   *)
(* a feature [id, label, lo, hi] of the layer covers the longitudes        *)
(* lo..hi.  id is a string or None; label is <<>> (None) or <<string>>.    *)
(***************************************************************************)
NumPoints(g) == SeqSum(List([i \in 1..Len(g.paths) |-> Len(g.paths[i])]))

Hit(g, f) ==
    \E i \in 1..Len(g.paths) : \E j \in 1..Len(g.paths[i]) :
        LET lon == g.paths[i][j][2]
        IN f.lo * g.scale <= lon /\ lon <= f.hi * g.scale

\* the features of the layer that the geometry intersects, as attributes
_execute_query(g) ==
    LET found == SelectSeq(remote.features, LAMBDA f : Hit(g, f))
    IN List([i \in 1..Len(found) |-> [id |-> found[i].id, label |-> found[i].label]])

RECURSIVE DedupLoop(_, _, _)
DedupLoop(items, seen, acc) ==
    IF items = <<>> THEN acc
    ELSE IF Head(items) \in seen THEN DedupLoop(Tail(items), seen, acc)
    ELSE DedupLoop(Tail(items), seen \cup {Head(items)}, Append(acc, Head(items)))

\* features with equal attributes are kept once
_execute_query_multiple(g) == DedupLoop(_execute_query(g), {}, <<>>)

Perms(S) == {q \in [1..Cardinality(S) -> S] : \A x \in S : \E i \in 1..Cardinality(S) : q[i] = x}

\* list(set(values)) of the non-None values of a field: every order
IdLists(results) == Perms({results[i].id : i \in 1..Len(results)} \ {None})
LabelLists(results) ==
    Perms({results[i].label[1] : i \in {k \in 1..Len(results) : results[k].label /= <<>>}})

\* what a successful _call_intersect may return: (list_values, string_values)
CallResponses(g) ==
    LET results == _execute_query_multiple(g)
    IN {[ids |-> p, labels |-> Join(<<",">>, q)] :
            p \in IdLists(results), q \in LabelLists(results)}

\* _build_geometry returns a geometry dict: a list without coordinates, and
\* a whole geometry that is a list of lists of paths, make it raise or
\* return nothing after the token has been requested
Buildable(g) == g.paths /= <<>> /\ (g.kind = "whole" => g.form /= "C")
CanSucceed(g) == Buildable(g) /\ NumPoints(g) <= remote.limit
CanFail(g) == ~Buildable(g) \/ NumPoints(g) > remote.limit \/ remote.flaky

(***************************************************************************)
(* _agol_intersect_adaptive.                                               *)
(***************************************************************************)
is_route == _extract_route_paths(geometry).ok
is_poly == _extract_polygon_rings(geometry).ok

RouteMode == enable_route_chunking /\ is_route
PolygonMode == ~RouteMode /\ enable_polygon_chunking /\ is_poly

NoOutcome == [kind |-> "none", list_values |-> <<>>, string_values |-> <<>>,
              type |-> "", carried |-> 0]
Returned(ids, labels) ==
    [kind |-> "result", list_values |-> ids, string_values |-> labels,
     type |-> "", carried |-> 0]
Raised(type, carried) ==
    [kind |-> "error", list_values |-> <<>>, string_values |-> <<>>,
     type |-> type, carried |-> carried]

Whole(geom) == [kind |-> "whole", paths |-> geom.paths, scale |-> 1, form |-> geom.form]

CallRecord(g, ok) == [kind |-> g.kind, points |-> NumPoints(g), ok |-> ok]
\* a chunk's call and what it returned
CallResult(g, r) ==
    [kind |-> g.kind, points |-> NumPoints(g), ok |-> TRUE,
     paths |-> g.paths, ids |-> r.ids, labels |-> r.labels]

\* an extend that puts the new items in front
Extend_InFront(list, items) == items \o list
\* list.extend(items)
Extend(list, items) == list \o items

\* merged lists that an attempt takes over from the attempt before
NewMerged_Carried(kept) == kept
\* merged_ids = [] and merged_labels_list = [] at the start of an attempt
NewMerged(kept) == <<>>

\* the merge at the end of an attempt
MergedResult(ids, labels_list) ==
    Returned(_unique_preserve_order(ids),
             Join(<<",", " ">>, _unique_preserve_order(labels_list)))

\* the number the route ladder's terminal error names
RouteErrorSize == session_state.min_points

\* a ladder that quarters instead of halving
HalveCurrent_Quarter(c) == c \div 4
\* the next value of the route ladder
HalveCurrent(c) == c \div 2

\* a ladder that adds one slice instead of doubling
DoubleSlices_AddOne(n) == n + 1
\* the next value of the polygon ladder
DoubleSlices(n) == n * 2

\* the first value of the polygon ladder
FirstSlices(initial) == Max2(2, initial)

\* a dispatch that tries the polygon ladder first
AfterFullFailure_PolygonFirst(route_on, route_like, polygon_on, polygon_like) ==
    IF polygon_on /\ polygon_like THEN "polygon"
    ELSE IF route_on /\ route_like THEN "route"
    ELSE "raised"

\* a dispatch that gives up on a route at once
AfterFullFailure_RouteRaises(route_on, route_like, polygon_on, polygon_like) ==
    IF route_on /\ route_like THEN "raised"
    ELSE IF polygon_on /\ polygon_like THEN "polygon"
    ELSE "raised"

\* a dispatch that does not read the enable flags
AfterFullFailure_IgnoresFlags(route_on, route_like, polygon_on, polygon_like) ==
    IF route_like THEN "route"
    ELSE IF polygon_like THEN "polygon"
    ELSE "raised"

\* where a failed full call leads: 2a) the route ladder when route chunking is
\* enabled and the geometry route-like, else 2b) the polygon ladder when
\* polygon chunking is enabled and the geometry polygon-like, else the raise
AfterFullFailure(route_on, route_like, polygon_on, polygon_like) ==
    IF route_on /\ route_like THEN "route"
    ELSE IF polygon_on /\ polygon_like THEN "polygon"
    ELSE "raised"

\* 1) the single full-geometry call succeeds
FullCallReturns ==
    /\ pc = "full"
    /\ CanSucceed(Whole(geometry))
    /\ \E r \in CallResponses(Whole(geometry)) :
          outcome' = Returned(r.ids, r.labels)
    /\ calls' = Append(calls, CallRecord(Whole(geometry), TRUE))
    /\ full_call' = "returned"
    /\ pc' = "returned"
    /\ UNCHANGED <<geometry, enable_route_chunking, enable_polygon_chunking,
                   session_state, remote, current, slices, geoms, idx, merged_ids,
                   merged_labels_list, last_error, attempts, fvars>>

\* 1) the full call raises: 2a) the route ladder, 2b) the polygon ladder, or
\* the original failure raised again
FullCallFails ==
    /\ pc = "full"
    /\ CanFail(Whole(geometry))
    /\ calls' = Append(calls, CallRecord(Whole(geometry), FALSE))
    /\ full_call' = "raised"
    /\ pc' = AfterFullFailure(enable_route_chunking, is_route,
                              enable_polygon_chunking, is_poly)
    /\ IF pc' = "route"
       THEN /\ current' = session_state.max_points
            /\ UNCHANGED <<slices, outcome>>
       ELSE IF pc' = "polygon"
       THEN /\ slices' = FirstSlices(session_state.initial)
            /\ UNCHANGED <<current, outcome>>
       ELSE /\ outcome' = Raised("RemoteError", 0)
            /\ UNCHANGED <<current, slices>>
    /\ last_error' = None
    /\ UNCHANGED <<geometry, enable_route_chunking, enable_polygon_chunking,
                   session_state, remote, geoms, idx, merged_ids,
                   merged_labels_list, attempts, fvars>>

\* while current >= min_points: chunk the route at `current` points
RouteAttempt ==
    /\ pc = "route"
    /\ current >= session_state.min_points
    /\ Len(attempts) < MaxAttempts
    /\ geoms' = _chunk_route_geometry(geometry, current)
    /\ idx' = 0
    /\ merged_ids' = NewMerged(merged_ids)
    /\ merged_labels_list' = NewMerged(merged_labels_list)
    /\ attempts' = Append(attempts, current)
    /\ calls' = <<>>
    /\ pc' = "route_calls"
    /\ UNCHANGED <<geometry, enable_route_chunking, enable_polygon_chunking,
                   session_state, remote, current, slices, last_error, outcome,
                   full_call, fvars>>

\* one chunk's call succeeds; after the last one the attempt returns
ChunkCallReturns ==
    /\ pc \in {"route_calls", "polygon_calls"}
    /\ idx < Len(geoms)
    /\ CanSucceed(geoms[idx + 1])
    /\ \E r \in CallResponses(geoms[idx + 1]) :
          LET ids == Extend(merged_ids, r.ids)
              labels_list == Extend(merged_labels_list, _split_string_values(r.labels))
          IN /\ IF idx + 1 = Len(geoms)
                THEN /\ outcome' = MergedResult(ids, labels_list)
                     /\ merged_ids' = outcome'.list_values
                     /\ merged_labels_list' = _unique_preserve_order(labels_list)
                     /\ pc' = "returned"
                ELSE /\ merged_ids' = ids
                     /\ merged_labels_list' = labels_list
                     /\ UNCHANGED <<outcome, pc>>
             /\ calls' = Append(calls, CallResult(geoms[idx + 1], r))
    /\ idx' = idx + 1
    /\ UNCHANGED <<geometry, enable_route_chunking, enable_polygon_chunking,
                   session_state, remote, current, slices, geoms, last_error,
                   full_call, attempts, fvars>>

\* one chunk's call raises: the attempt is given up and the ladder moves on
ChunkCallFails ==
    /\ pc \in {"route_calls", "polygon_calls"}
    /\ idx < Len(geoms)
    /\ CanFail(geoms[idx + 1])
    /\ calls' = Append(calls, CallRecord(geoms[idx + 1], FALSE))
    /\ last_error' = <<"RemoteError">>
    /\ IF pc = "route_calls"
       THEN /\ current' = HalveCurrent(current)
            /\ pc' = "route"
            /\ UNCHANGED slices
       ELSE /\ slices' = DoubleSlices(slices)
            /\ pc' = "polygon"
            /\ UNCHANGED current
    /\ UNCHANGED <<geometry, enable_route_chunking, enable_polygon_chunking,
                   session_state, remote, geoms, idx, merged_ids,
                   merged_labels_list, outcome, full_call, attempts, fvars>>

\* current < min_points: RuntimeError naming min_points
RouteExhausted ==
    /\ pc = "route"
    /\ current < session_state.min_points
    /\ outcome' = Raised("ChunkingExhausted", RouteErrorSize)
    /\ pc' = "raised"
    /\ UNCHANGED <<geometry, enable_route_chunking, enable_polygon_chunking,
                   session_state, remote, current, slices, geoms, idx, merged_ids,
                   merged_labels_list, last_error, full_call, calls, attempts, fvars>>

\* while slices <= max_slices: slice the polygon; no piece at all returns the
\* empty merge at once, a slicer error moves the ladder on
PolygonAttempt ==
    /\ pc = "polygon"
    /\ slices <= session_state.max_slices
    /\ Len(attempts) < MaxAttempts
    /\ attempts' = Append(attempts, slices)
    /\ calls' = <<>>
    /\ idx' = 0
    /\ LET r == _slice_polygon_into_equal_parts(geometry, slices)
       IN IF r.raised
          THEN /\ last_error' = <<"SlicerError">>
               /\ slices' = DoubleSlices(slices)
               /\ UNCHANGED <<geoms, merged_ids, merged_labels_list, outcome, pc>>
          ELSE IF r.pieces = <<>>
          THEN /\ outcome' = MergedResult(<<>>, <<>>)
               /\ pc' = "returned"
               /\ merged_ids' = NewMerged(merged_ids)
               /\ merged_labels_list' = NewMerged(merged_labels_list)
               /\ geoms' = <<>>
               /\ UNCHANGED <<last_error, slices>>
          ELSE /\ geoms' = r.pieces
               /\ merged_ids' = NewMerged(merged_ids)
               /\ merged_labels_list' = NewMerged(merged_labels_list)
               /\ pc' = "polygon_calls"
               /\ UNCHANGED <<last_error, slices, outcome>>
    /\ UNCHANGED <<geometry, enable_route_chunking, enable_polygon_chunking,
                   session_state, remote, current, full_call, fvars>>

\* slices > max_slices: RuntimeError naming max_slices
PolygonExhausted ==
    /\ pc = "polygon"
    /\ slices > session_state.max_slices
    /\ outcome' = Raised("ChunkingExhausted", session_state.max_slices)
    /\ pc' = "raised"
    /\ UNCHANGED <<geometry, enable_route_chunking, enable_polygon_chunking,
                   session_state, remote, current, slices, geoms, idx, merged_ids,
                   merged_labels_list, last_error, full_call, calls, attempts, fvars>>

\* the model follows a ladder for MaxAttempts attempts and then leaves it
LadderCut ==
    /\ pc \in {"route", "polygon"}
    /\ Len(attempts) >= MaxAttempts
    /\ IF pc = "route" THEN current >= session_state.min_points
       ELSE slices <= session_state.max_slices
    /\ pc' = "cut"
    /\ UNCHANGED <<geometry, enable_route_chunking, enable_polygon_chunking,
                   session_state, remote, current, slices, geoms, idx, merged_ids,
                   merged_labels_list, last_error, outcome, full_call, calls, attempts,
                   fvars>>

(***************************************************************************)
(* The inputs of the query model.                                          *)
(***************************************************************************)
Line(n) == List([i \in 1..n |-> <<0, i>>])
\* a 4 x 2 rectangle (closed ring) and a triangle (open ring)
RectRing == << <<0, 0>>, <<0, 4>>, <<2, 4>>, <<2, 0>>, <<0, 0>> >>
TriRing == << <<0, 0>>, <<0, 3>>, <<3, 0>> >>

\* is the geometry one of the long ones
IsLong(geom) == NumPoints(geom) >= LongLen

Geometries ==
    {[form |-> "point", paths |-> <<Line(1)>>]}
    \cup {[form |-> "A", paths |-> <<ps>>] :
            ps \in {Line(1), Line(2), Line(ShortLen), Line(MidLen), Line(LongLen),
                   RectRing, TriRing}}
    \cup {[form |-> "B", paths |-> <<RectRing>>],
          [form |-> "B", paths |-> <<Line(MidLen), Line(LongLen)>>],
          [form |-> "B", paths |-> <<Line(ShortLen), Line(2)>>],
          [form |-> "C", paths |-> <<Line(MidLen), Line(2)>>],
          [form |-> "invalid", paths |-> <<>>]}

DefaultLadder == [max_points |-> DefaultMaxPoints, min_points |-> DefaultMinPoints]
RouteLadders ==
    {DefaultLadder,
     [max_points |-> DefaultMaxPoints, min_points |-> DocMinPoints],
     [max_points |-> SmallMaxPoints, min_points |-> 2],
     [max_points |-> SmallMaxPoints, min_points |-> 0],
     [max_points |-> 2, min_points |-> SmallMaxPoints]}

DefaultSlicing == [initial |-> DefaultInitialSlices, max_slices |-> DefaultMaxSlices]
Slicings ==
    {DefaultSlicing,
     [initial |-> 1, max_slices |-> 8],
     [initial |-> DefaultInitialSlices, max_slices |-> 3]}

Str(c) == <<c>>
Feature(id, label, lo, hi) == [id |-> id, label |-> label, lo |-> lo, hi |-> hi]
Layouts ==
    { <<>>,
      << Feature(Str("1"), <<Str("a")>>, 0, 1000) >>,
      << Feature(Str("1"), <<Str("a")>>, 0, 2), Feature(Str("2"), <<Str("b")>>, 2, 1000) >>,
      << Feature(Str("1"), << <<"a", ",", " ", "b">> >>, 0, 2),
         Feature(None, << <<" ", "b", "<br>", "c">> >>, 2, 3),
         Feature(Str("1"), <<>>, 3, 1000) >> }

\* a limit no geometry of the model exceeds
NoLimit == 1000
Remotes ==
    {[limit |-> l, flaky |-> f, features |-> fs] :
        l \in {0, ScenarioLimit, NoLimit}, f \in BOOLEAN, fs \in Layouts}

Init ==
    /\ geometry \in Geometries
    /\ enable_route_chunking \in BOOLEAN
    /\ enable_polygon_chunking \in BOOLEAN
    /\ session_state \in
          {[max_points |-> r.max_points, min_points |-> r.min_points,
            initial |-> p.initial, max_slices |-> p.max_slices] :
                r \in RouteLadders, p \in Slicings}
    /\ remote \in Remotes
    \* knobs that the run cannot read are left at their defaults, and a
    \* geometry of several rings (holes) is not sliced
    /\ ~RouteMode =>
          /\ session_state.max_points = DefaultMaxPoints
          /\ session_state.min_points = DefaultMinPoints
    /\ ~PolygonMode =>
          /\ session_state.initial = DefaultInitialSlices
          /\ session_state.max_slices = DefaultMaxSlices
    /\ PolygonMode => Len(geometry.paths) = 1
    \* the long geometries meet the default chunk size and a layer that
    \* refuses by size; a layer that refuses everything returns no feature
    /\ IsLong(geometry) =>
          /\ session_state.max_points = DefaultMaxPoints
          /\ ~remote.flaky
    /\ remote.flaky => remote.limit = NoLimit
    /\ remote.limit = 0 => remote.features = <<>>
    /\ pc = "full"
    /\ current = 0
    /\ slices = 0
    /\ geoms = <<>>
    /\ idx = 0
    /\ merged_ids = <<>>
    /\ merged_labels_list = <<>>
    /\ last_error = None
    /\ outcome = NoOutcome
    /\ full_call = "pending"
    /\ calls = <<>>
    /\ attempts = <<>>
    /\ fn = "query"
    /\ inp = <<>>
    /\ out = <<>>

Next ==
    \/ FullCallReturns
    \/ FullCallFails
    \/ RouteAttempt
    \/ ChunkCallReturns
    \/ ChunkCallFails
    \/ RouteExhausted
    \/ PolygonAttempt
    \/ PolygonExhausted
    \/ LadderCut

Spec == Init /\ [][Next]_vars

(***************************************************************************)
(* Properties of the adaptive query.                                       *)
(***************************************************************************)
RECURSIVE Pow2(_)
Pow2(k) == IF k = 0 THEN 1 ELSE 2 * Pow2(k - 1)

Last(s) == s[Len(s)]

\* the run came back from a ladder attempt, not from the full call
ReturnedByAttempt == pc = "returned" /\ attempts /= <<>>

\* the features of the layer that at least one of the geometries intersects
HitFeatures(gs) ==
    {remote.features[i] : i \in {k \in 1..Len(remote.features) :
                                    \E n \in 1..Len(gs) : Hit(gs[n], remote.features[k])}}
HitIds(gs) == {f.id : f \in HitFeatures(gs)} \ {None}
LabelTokens(f) == IF f.label = <<>> THEN {} ELSE Range(_split_string_values(f.label[1]))

\* the route of Scenario C: default ladder, more than 75 points, a layer that
\* answers exactly the requests of at most ScenarioLimit points
ScenarioC ==
    /\ RouteMode
    /\ session_state.max_points = DefaultMaxPoints
    /\ session_state.min_points = DefaultMinPoints
    /\ NumPoints(geometry) > 75
    /\ remote.limit = ScenarioLimit
    /\ ~remote.flaky

C2_CarriesLastAttempted ==
    (RouteMode /\ pc = "raised" /\ attempts /= <<>>) =>
        /\ outcome.type = "ChunkingExhausted"
        /\ outcome.carried = Last(attempts)

C4_FullCallFirst ==
    /\ full_call = "returned" =>
          /\ pc = "returned"
          /\ attempts = <<>> /\ geoms = <<>> /\ idx = 0
          /\ calls = <<CallRecord(Whole(geometry), TRUE)>>
          /\ \E r \in CallResponses(Whole(geometry)) : outcome = Returned(r.ids, r.labels)
    /\ (pc \in {"route", "route_calls", "polygon", "polygon_calls"} \/ attempts /= <<>>)
          => full_call = "raised"
    /\ (full_call = "raised" /\ RouteMode) =>
          /\ pc \in {"route", "route_calls", "returned", "raised", "cut"}
          /\ pc = "raised" => outcome.type = "ChunkingExhausted"
    /\ (full_call = "raised" /\ PolygonMode) =>
          /\ pc \in {"polygon", "polygon_calls", "returned", "raised", "cut"}
          /\ pc = "raised" => outcome.type = "ChunkingExhausted"

C4_Witness ==
    /\ RouteMode
    /\ full_call = "returned"
    /\ pc = "returned"
    /\ Len(outcome.list_values) >= 2

\* C5 as stated: whatever the geometry, the flags and the failures of the
\* layer, an error that leaves the function is a validation error or
\* ChunkingExhausted.
C5_NoRawFailure ==
    pc = "raised" => outcome.type \in {"ValidationError", "ChunkingExhausted"}

\* C5: an error that leaves the function is ChunkingExhausted when a ladder
\* applies to the geometry (route-like with route chunking enabled, or
\* polygon-like with polygon chunking enabled), and otherwise (a point, or the
\* flag of the geometry's kind disabled) it is the failure of the full call
\* itself, raised again after that one call.
C5_RawFailureWithoutLadder ==
    pc = "raised" =>
        IF RouteMode \/ PolygonMode
        THEN outcome.type = "ChunkingExhausted"
        ELSE /\ outcome.type = "RemoteError"
             /\ attempts = <<>>
             /\ calls = <<CallRecord(Whole(geometry), FALSE)>>

C5_Witness ==
    /\ pc = "raised"
    /\ outcome.type = "RemoteError"
    /\ geometry.form = "point"
    /\ enable_route_chunking /\ enable_polygon_chunking

\* C7: the ids and the labels merged from the chunks of one attempt hold no
\* duplicate: the id of every feature some chunk returned, and every label
\* token of it, appears exactly once, also when several chunks returned it.
C7_MergeHasNoDuplicates ==
    ReturnedByAttempt =>
        /\ NoDup(outcome.list_values)
        /\ NoDup(merged_labels_list)
        /\ outcome.string_values = Join(<<",", " ">>, merged_labels_list)
        /\ \A f \in HitFeatures(geoms) :
              /\ f.id /= None => Count(outcome.list_values, f.id) = 1
              /\ \A t \in LabelTokens(f) : Count(merged_labels_list, t) = 1

C7_Witness ==
    /\ ReturnedByAttempt
    /\ \E f \in HitFeatures(geoms) :
          /\ f.id /= None /\ f.label /= <<>>
          /\ \E i, j \in 1..Len(geoms) :
                i /= j /\ Hit(geoms[i], f) /\ Hit(geoms[j], f)

(***************************************************************************)
(* The pure functions are applied to drawn inputs while the adaptive query *)
(* is idle.                                                                *)
(***************************************************************************)
QueryIdle ==
    /\ geometry = [form |-> "point", paths |-> <<Line(1)>>]
    /\ enable_route_chunking = FALSE
    /\ enable_polygon_chunking = FALSE
    /\ session_state = [max_points |-> DefaultMaxPoints, min_points |-> DefaultMinPoints,
                        initial |-> DefaultInitialSlices, max_slices |-> DefaultMaxSlices]
    /\ remote = [limit |-> NoLimit, flaky |-> FALSE, features |-> <<>>]
    /\ pc = "idle"
    /\ current = 0
    /\ slices = 0
    /\ geoms = <<>>
    /\ idx = 0
    /\ merged_ids = <<>>
    /\ merged_labels_list = <<>>
    /\ last_error = None
    /\ outcome = NoOutcome
    /\ full_call = "pending"
    /\ calls = <<>>
    /\ attempts = <<>>

(***************************************************************************)
(* The route chunker on its own.                                           *)
(* inp = [route, max_points]; out = the list of segments, one per chunk.   *)
(***************************************************************************)
\* path number `lat` of a route: n points along one latitude; path 0 is a
\* path that comes back over its own points
PathAt(lat, n) ==
    IF lat = 0 THEN List([i \in 1..n |-> <<0, IF i % 3 = 0 THEN 1 ELSE i % 3>>])
    ELSE List([i \in 1..n |-> <<lat, i>>])

ChunkRoutes ==
    {[form |-> "A", paths |-> <<PathAt(lat, n)>>] : lat \in 0..1, n \in 1..MaxPathLen}
    \cup {[form |-> f, paths |-> List([k \in 1..Len(ns) |-> PathAt(k, ns[k])])] :
            f \in {"B", "C"},
            ns \in UNION {[1..m -> 1..MaxPathLen] : m \in 1..MaxPaths}}

ChunkSizes == (0 - 1)..(MaxPathLen + 1)

InitChunk ==
    /\ QueryIdle
    /\ fn = "route"
    /\ inp \in {[route |-> r, max_points |-> m] : r \in ChunkRoutes, m \in ChunkSizes}
    /\ out = <<>>

\* _chunk_points on the first path of the route
ChunkPoints ==
    /\ fn = "route"
    /\ fn' = "_chunk_points"
    /\ out' = _chunk_points(inp.route.paths[1], inp.max_points)
    /\ UNCHANGED <<inp, qvars>>

\* _chunk_route_geometry on the route; each chunk is [seg]
ChunkRouteGeometry ==
    /\ fn = "route"
    /\ fn' = "_chunk_route_geometry"
    /\ LET chunks == _chunk_route_geometry(inp.route, inp.max_points)
       IN out' = List([i \in 1..Len(chunks) |-> chunks[i].paths[1]])
    /\ UNCHANGED <<inp, qvars>>

NextChunk == ChunkPoints \/ ChunkRouteGeometry

SpecChunk == InitChunk /\ [][NextChunk]_vars

\* the paths the segments rebuild: a segment that starts on the point the
\* path built so far ends on continues it, less that first point; any other
\* segment starts a new path
RECURSIVE Rebuild(_, _)
Rebuild(segs, built) ==
    IF segs = <<>> THEN built
    ELSE LET seg == Head(segs)
             n == Len(built)
         IN IF n > 0 /\ seg /= <<>> /\ Last(built[n]) = seg[1]
            THEN Rebuild(Tail(segs), [built EXCEPT ![n] = built[n] \o Tail(seg)])
            ELSE Rebuild(Tail(segs), Append(built, seg))

IsSliceOf(seg, path) ==
    \E a \in 1..Len(path) :
        /\ a + Len(seg) - 1 <= Len(path)
        /\ seg = SubSeq(path, a, a + Len(seg) - 1)

\* the paths the segments of `out` were cut from
ChunkedPaths ==
    IF fn = "_chunk_points" THEN <<inp.route.paths[1]>> ELSE inp.route.paths

\* C6: the chunks of a route are contiguous slices of its paths, in the
\* order of the paths; every point of a path is in a chunk and every two
\* consecutive points of a path are together in a chunk; a path's chunks,
\* each later one less its first point, put together give the path back; and
\* no chunk has more than max(2, max_points) points.
C6_ChunkingLosesNothing ==
    fn \in {"_chunk_points", "_chunk_route_geometry"} =>
        /\ \A k \in 1..Len(out) :
              /\ out[k] /= <<>>
              /\ Len(out[k]) <= Max2(2, inp.max_points)
              /\ \E n \in 1..Len(ChunkedPaths) : IsSliceOf(out[k], ChunkedPaths[n])
        /\ \A n \in 1..Len(ChunkedPaths) :
              LET path == ChunkedPaths[n]
              IN /\ \A i \in 1..Len(path) :
                       \E k \in 1..Len(out) : \E j \in 1..Len(out[k]) : out[k][j] = path[i]
                 /\ \A i \in 1..(Len(path) - 1) :
                       \E k \in 1..Len(out) : \E j \in 1..(Len(out[k]) - 1) :
                           out[k][j] = path[i] /\ out[k][j + 1] = path[i + 1]
        /\ Rebuild(out, <<>>) = ChunkedPaths

C6_Witness ==
    /\ fn = "_chunk_route_geometry"
    /\ Len(inp.route.paths) = 2
    /\ Len(out) >= 5
    /\ \E k \in 1..(Len(out) - 1) : Last(out[k]) = out[k + 1][1]

(***************************************************************************)
(* The polyline clipper of agol/agol_util.py, in exact arithmetic.         *)
(* A number is a fraction <<n, d>> in lowest terms with d > 0; a point is  *)
(* <<x, y>> (x = lon, y = lat); an envelope is [xmin, ymin, xmax, ymax].   *)
(* The result of a clip is [none, paths]: none stands for None.            *)
(***************************************************************************)
Frac(n, d) ==
    LET g == Gcd(Abs(n), Abs(d))
        sgn == IF d < 0 THEN 0 - 1 ELSE 1
    IN <<(sgn * n) \div g, (sgn * d) \div g>>
Whole2(n) == <<n, 1>>
FAdd(a, b) == Frac(a[1] * b[2] + b[1] * a[2], a[2] * b[2])
FSub(a, b) == Frac(a[1] * b[2] - b[1] * a[2], a[2] * b[2])
FMul(a, b) == Frac(a[1] * b[1], a[2] * b[2])
FDiv(a, b) == Frac(a[1] * b[2], a[2] * b[1])
FLt(a, b) == a[1] * b[2] < b[1] * a[2]
FZero(a) == a[1] = 0

\* an outcode without the test against xmax
code_NoRight(x, y, env) ==
    (IF FLt(x, env.xmin) THEN 1 ELSE 0)
    + (IF FLt(y, env.ymin) THEN 4 ELSE IF FLt(env.ymax, y) THEN 8 ELSE 0)
\* the outcode: 1 left, 2 right, 4 bottom, 8 top
code(x, y, env) ==
    (IF FLt(x, env.xmin) THEN 1 ELSE IF FLt(env.xmax, x) THEN 2 ELSE 0)
    + (IF FLt(y, env.ymin) THEN 4 ELSE IF FLt(env.ymax, y) THEN 8 ELSE 0)

BitAnd(c, bit) == (c \div bit) % 2 = 1
\* c1 & c2 is not zero
Shared(c1, c2) == \E bit \in {1, 2, 4, 8} : BitAnd(c1, bit) /\ BitAnd(c2, bit)

\* an interpolation that leaves out the division by d2
Along_Unscaled(a, d1, bound, b, d2) ==
    IF FZero(d2) THEN a ELSE FAdd(a, FMul(d1, FSub(bound, b)))
\* a + d1 * (bound - b) / d2, or a when d2 = 0
Along(a, d1, bound, b, d2) ==
    IF FZero(d2) THEN a ELSE FAdd(a, FDiv(FMul(d1, FSub(bound, b)), d2))

\* the point the outside end moves to: top, then bottom, then right, then left
Moved(x1, y1, x2, y2, outc, env) ==
    LET dx == FSub(x2, x1)
        dy == FSub(y2, y1)
    IN IF BitAnd(outc, 8) THEN <<Along(x1, dx, env.ymax, y1, dy), env.ymax>>
       ELSE IF BitAnd(outc, 4) THEN <<Along(x1, dx, env.ymin, y1, dy), env.ymin>>
       ELSE IF BitAnd(outc, 2) THEN <<env.xmax, Along(y1, dy, env.xmax, x1, dx)>>
       ELSE <<env.xmin, Along(y1, dy, env.xmin, x1, dx)>>

\* the loop of _clip_segment_to_bbox: <<p1, p2>>, or <<>> for None
RECURSIVE ClipLoop(_, _, _, _, _)
ClipLoop(x1, y1, x2, y2, env) ==
    LET c1 == code(x1, y1, env)
        c2 == code(x2, y2, env)
    IN IF c1 = 0 /\ c2 = 0 THEN << <<x1, y1>>, <<x2, y2>> >>
       ELSE IF Shared(c1, c2) THEN <<>>
       ELSE LET outc == IF c1 /= 0 THEN c1 ELSE c2
                m == Moved(x1, y1, x2, y2, outc, env)
            IN IF outc = c1 THEN ClipLoop(m[1], m[2], x2, y2, env)
               ELSE ClipLoop(x1, y1, m[1], m[2], env)

_clip_segment_to_bbox(p1, p2, env) == ClipLoop(p1[1], p1[2], p2[1], p2[2], env)

\* a test that always takes the start of a kept segment for a new point
PointsDiffer_Always(last, c) == TRUE
\* abs(lastx - cx1) > 1e-12 or abs(lasty - cy1) > 1e-12: two different
\* numbers of the model are further apart than 1e-12
PointsDiffer(last, c) == last[1] /= c[1] \/ last[2] /= c[2]

\* the loop over the segments of one path: the sub-paths it closed and the
\* one it is building
RECURSIVE ClipPath(_, _, _, _, _)
ClipPath(path, i, env, closed, building) ==
    IF i > Len(path)
    THEN IF building /= <<>> THEN Append(closed, building) ELSE closed
    ELSE LET seg == _clip_segment_to_bbox(path[i - 1], path[i], env)
         IN IF seg = <<>>
            THEN ClipPath(path, i + 1, env,
                          IF building /= <<>> THEN Append(closed, building) ELSE closed,
                          <<>>)
            ELSE LET started == IF building = <<>> THEN <<seg[1]>>
                                ELSE IF PointsDiffer(Last(building), seg[1])
                                     THEN Append(building, seg[1])
                                     ELSE building
                 IN ClipPath(path, i + 1, env, closed, Append(started, seg[2]))

RECURSIVE ClipPaths(_, _)
ClipPaths(paths, env) ==
    IF paths = <<>> THEN <<>>
    ELSE ClipPath(Head(paths), 2, env, <<>>, <<>>) \o ClipPaths(Tail(paths), env)

_clip_polyline_to_bbox(polyline, envelope) ==
    LET out_paths == ClipPaths(polyline, envelope)
    IN [none |-> out_paths = <<>>, paths |-> out_paths]

(***************************************************************************)
(* The clipper on its own.  inp = [polyline, envelope]; out = the result.  *)
(***************************************************************************)
Pt(x, y) == <<Whole2(x), Whole2(y)>>

\* points in, on and around the envelopes: every outcode has one
ClipPoints ==
    {Pt(2, 2), Pt(1, 2), Pt(3, 3), Pt(0, 0), Pt(4, 1), Pt(2, 4), Pt(0, 3), Pt(4, 4),
     Pt(3, 0)}

ClipPathsOfLen(n) == [1..n -> ClipPoints]

ClipPolylines ==
    {<<p>> : p \in UNION {ClipPathsOfLen(n) : n \in 1..MaxClipLen}}
    \cup {<<p, q>> : p \in ClipPathsOfLen(1) \cup ClipPathsOfLen(2),
                     q \in {<<Pt(2, 2)>>, <<Pt(0, 0), Pt(2, 2), Pt(4, 4)>>}}

Envelope(x0, y0, x1, y1) ==
    [xmin |-> Whole2(x0), ymin |-> Whole2(y0), xmax |-> Whole2(x1), ymax |-> Whole2(y1)]

\* a box, a box without width, and a box that holds every point
Envelopes == {Envelope(1, 1, 3, 3), Envelope(2, 1, 2, 3), Envelope(0, 0, 4, 4)}

InitClip ==
    /\ QueryIdle
    /\ fn = "polyline"
    /\ inp \in {[polyline |-> pl, envelope |-> e] : pl \in ClipPolylines, e \in Envelopes}
    /\ out = [none |-> TRUE, paths |-> <<>>]

\* _clip_polyline_to_bbox(polyline, envelope)
ClipPolyline ==
    /\ fn = "polyline"
    /\ fn' = "clip"
    /\ out' = _clip_polyline_to_bbox(inp.polyline, inp.envelope)
    /\ UNCHANGED <<inp, qvars>>

\* the clipped polyline is clipped again to the same envelope
ClipAgain ==
    /\ fn = "clip"
    /\ ~out.none
    /\ fn' = "clip_again"
    /\ inp' = [inp EXCEPT !.polyline = out.paths]
    /\ out' = _clip_polyline_to_bbox(out.paths, inp.envelope)
    /\ UNCHANGED qvars

NextClip == ClipPolyline \/ ClipAgain

SpecClip == InitClip /\ [][NextClip]_vars

FLe(a, b) == ~FLt(b, a)
InEnvelope(pt, env) ==
    /\ FLe(env.xmin, pt[1]) /\ FLe(pt[1], env.xmax)
    /\ FLe(env.ymin, pt[2]) /\ FLe(pt[2], env.ymax)
AllInside(paths, env) ==
    \A k \in 1..Len(paths) : \A i \in 1..Len(paths[k]) : InEnvelope(paths[k][i], env)
\* a point the clipper computed: not on the points of the inputs
Computed(pt) == pt[1][2] > 1 \/ pt[2][2] > 1
Clipped == fn \in {"clip", "clip_again"}

\* C8: every coordinate of every sub-path the clipper returns lies in the
\* envelope: xmin <= x <= xmax and ymin <= y <= ymax.
C8_ClipSoundness ==
    Clipped =>
        /\ AllInside(out.paths, inp.envelope)
        /\ \A k \in 1..Len(out.paths) : Len(out.paths[k]) >= 2

C8_Witness ==
    /\ fn = "clip"
    /\ ~AllInside(inp.polyline, inp.envelope)
    /\ Len(out.paths) >= 2
    /\ \E k \in 1..Len(out.paths) : \E i \in 1..Len(out.paths[k]) :
          Computed(out.paths[k][i])

\* C9 as stated: a polyline whose paths (of one point or more) lie in the
\* envelope comes back unchanged, and clipping the result again gives the
\* result.
C9_InsideUnchanged ==
    /\ (fn = "clip" /\ AllInside(inp.polyline, inp.envelope)) =>
          /\ ~out.none
          /\ out.paths = inp.polyline
    /\ fn = "clip_again" =>
          /\ ~out.none
          /\ out.paths = inp.polyline

\* C9: of a polyline that lies in the envelope every path of two points or
\* more comes back unchanged and every path of one point is left out (the
\* result is None when no path is left); and clipping a result that is not
\* None again gives that result.
C9_InsideUnchangedFromTwoPoints ==
    /\ (fn = "clip" /\ AllInside(inp.polyline, inp.envelope)) =>
          /\ out.paths = SelectSeq(inp.polyline, LAMBDA path : Len(path) >= 2)
          /\ out.none = (out.paths = <<>>)
    /\ fn = "clip_again" =>
          /\ ~out.none
          /\ out.paths = inp.polyline

C9_Witness ==
    /\ fn = "clip_again"
    /\ Len(inp.polyline) >= 2
    /\ out.paths = inp.polyline
    /\ \E k \in 1..Len(out.paths) : \E i \in 1..Len(out.paths[k]) :
          Computed(out.paths[k][i])

(***************************************************************************)
(* The polygon slicer on its own.  inp = [boundary_geom, parts];           *)
(* out = [raised, pieces].                                                 *)
(***************************************************************************)
GridPoints == {<<lat, lon>> : lat \in 0..SliceGrid, lon \in 0..SliceGrid}

\* the triangles of the grid, in both orientations and from every vertex
Triangles ==
    {t \in [1..3 -> GridPoints] : Area2(<<t[1], t[2], t[3], t[1]>>) /= 0}

\* a rectangle, a trapezoid and a kite, and the rectangle as a closed ring
Quadrilaterals ==
    { << <<0, 0>>, <<0, 2>>, <<1, 2>>, <<1, 0>> >>,
      << <<0, 0>>, <<2, 1>>, <<2, 2>>, <<0, 2>> >>,
      << <<1, 0>>, <<2, 1>>, <<1, 2>>, <<0, 1>> >>,
      << <<0, 0>>, <<0, 2>>, <<1, 2>>, <<1, 0>>, <<0, 0>> >> }

ConvexPolygons ==
    {[form |-> "B", paths |-> <<ring>>] : ring \in Triangles \cup Quadrilaterals}
    \cup {[form |-> "A", paths |-> <<ring>>] : ring \in Quadrilaterals}

SliceParts == {2, 4, 8}

InitSlice ==
    /\ QueryIdle
    /\ fn = "polygon"
    /\ inp \in {[boundary_geom |-> g, parts |-> n] : g \in ConvexPolygons, n \in SliceParts}
    /\ out = [raised |-> FALSE, pieces |-> <<>>]

\* _slice_polygon_into_equal_parts(boundary_geom, parts)
SlicePolygon ==
    /\ fn = "polygon"
    /\ fn' = "slice"
    /\ out' = _slice_polygon_into_equal_parts(inp.boundary_geom, inp.parts)
    /\ UNCHANGED <<inp, qvars>>

NextSlice == SlicePolygon

SpecSlice == InitSlice /\ [][NextSlice]_vars

\* twice the area of the i-th piece, and of the polygon, on the pieces' grid
PieceArea2(i) == Abs(Area2(out.pieces[i].paths[1]))
InputRing == _polygon_to_shapely(inp.boundary_geom).ring
InputArea2 == Abs(Area2(InputRing)) * out.pieces[1].scale * out.pieces[1].scale

\* piece i lies before piece j along coordinate `ax`
Before(i, j, ax) ==
    SeqMax(AxisCoords(out.pieces[i].paths[1], ax))
        <= SeqMin(AxisCoords(out.pieces[j].paths[1], ax))

\* C10: a convex polygon cut into 2, 4 or 8 parts gives that many pieces;
\* the strips run from bound to bound of the polygon, each starting where
\* the one before ends; the pieces lie one after the other along one axis, so
\* that no two overlap; and their areas add up to the polygon's area.
C10_SlicingConservesArea ==
    fn = "slice" =>
        /\ ~out.raised
        /\ Len(out.pieces) = inp.parts
        /\ LET n == inp.parts
               ax == SliceAxis(InputRing)
               k == SliceScale(InputRing, n)
           IN /\ StripBounds(InputRing, n, 0)[1] = k * SeqMin(AxisCoords(InputRing, ax))
              /\ StripBounds(InputRing, n, n - 1)[2] = k * SeqMax(AxisCoords(InputRing, ax))
              /\ \A i \in 0..(n - 1) :
                    StripBounds(InputRing, n, i)[1] < StripBounds(InputRing, n, i)[2]
              /\ \A i \in 0..(n - 2) :
                    StripBounds(InputRing, n, i)[2] = StripBounds(InputRing, n, i + 1)[1]
        /\ \E ax \in {1, 2} :
              \A i, j \in 1..Len(out.pieces) : i < j => Before(i, j, ax)
        /\ SeqSum(List([i \in 1..Len(out.pieces) |-> PieceArea2(i)])) = InputArea2

C10_Witness ==
    /\ fn = "slice"
    /\ inp.parts = 8
    /\ Len(out.pieces) = 8
    /\ Len(inp.boundary_geom.paths[1]) = 3
    /\ \E i, j \in 1..8 :
          Len(out.pieces[i].paths[1]) = 4 /\ Len(out.pieces[j].paths[1]) = 5
    /\ \E i, j \in 1..8 : PieceArea2(i) /= PieceArea2(j)

(***************************************************************************)
(* _simplify_with_guardrails of get_route_segment (agol_util.py).          *)
(* A line is its number of vertices (0: empty).  What line.simplify gives  *)
(* at a tolerance is not computed: every outcome [type, count] is tried.   *)
(* inp = [n, min_points, max_point_reduction (percent)];                   *)
(* out = [count, branch, tries, tol_deg]: the vertices of the line         *)
(* returned, the return statement that gave it, the turns of a backoff     *)
(* loop made so far, and the tolerance of the last simplification as a     *)
(* fraction of the adaptive tolerance.                                     *)
(***************************************************************************)
SimplifyCounts(n, min_points) ==
    IF n <= MaxLinePoints THEN 0..n
    ELSE {c \in {0, 1, 2, min_points - 1, min_points, min_points + 1,
                 (n \div 10) - 1, n \div 10, (n \div 10) + 1, n - 1, n} :
            0 <= c /\ c <= n}

\* line.simplify(tol_deg, preserve_topology): any geometry of no more vertices
SimplifyOutcomes(n, min_points) ==
    {[type |-> t, count |-> c] :
        t \in {"LineString", "MultiLineString"}, c \in SimplifyCounts(n, min_points)}

\* a guardrail that never sees too few points
BelowMinPoints_Never(n, count, min_points) == FALSE
\* len(orig_coords) >= min_points and len(simp_coords) < min_points
BelowMinPoints(n, count, min_points) == n >= min_points /\ count < min_points

\* 1.0 - (count / max(1, n)) > max_point_reduction
RemovedTooMany(n, count, pct) ==
    (Max2(1, n) - count) * 100 > pct * Max2(1, n)

SimplifyReturn(count, branch) ==
    /\ fn' = "returned"
    /\ out' = [count |-> count, branch |-> branch, tries |-> out.tries,
               tol_deg |-> out.tol_deg]

\* a loop that simplifies again at the same tolerance
Backoff_Keep(tol_deg) == tol_deg
\* tol_deg *= backoff, with backoff = 0.5
Backoff(tol_deg) == FMul(tol_deg, <<1, 2>>)

SimplifyLines ==
    {[n |-> n, min_points |-> m, max_point_reduction |-> r] :
        n \in 0..MaxLinePoints, m \in 0..(MaxLinePoints + 1),
        r \in {0 - 10, 0, 50, DefaultMaxReductionPct, 100}}
    \cup {[n |-> ScenarioPoints, min_points |-> DefaultSimplifyMinPoints,
           max_point_reduction |-> r] : r \in {0, DefaultMaxReductionPct, 100}}

InitSimplify ==
    /\ QueryIdle
    /\ fn = "line"
    /\ inp \in SimplifyLines
    /\ out = [count |-> 0, branch |-> "", tries |-> 0, tol_deg |-> Whole2(1)]

\* up to the guardrails: the early returns and the first line.simplify
SimplifyFirst ==
    /\ fn = "line"
    /\ UNCHANGED <<inp, qvars>>
    /\ IF inp.n = 0 THEN SimplifyReturn(inp.n, "empty")
       ELSE IF inp.n < 3 THEN SimplifyReturn(inp.n, "short")
       ELSE \E o \in SimplifyOutcomes(inp.n, inp.min_points) :
              IF o.count = 0 \/ o.type /= "LineString"
              THEN SimplifyReturn(inp.n, "unusable")
              ELSE IF o.count < 2 THEN SimplifyReturn(inp.n, "one_point")
              ELSE IF BelowMinPoints(inp.n, o.count, inp.min_points)
              THEN /\ fn' = "guardrail1"
                   /\ out' = [count |-> o.count, branch |-> "", tries |-> 0,
                              tol_deg |-> out.tol_deg]
              ELSE IF RemovedTooMany(inp.n, o.count, inp.max_point_reduction)
              THEN /\ fn' = "guardrail2"
                   /\ out' = [count |-> o.count, branch |-> "", tries |-> 0,
                              tol_deg |-> out.tol_deg]
              ELSE SimplifyReturn(o.count, "simplified")

\* guardrail 1, one turn of the loop: halve the tolerance, simplify again
BackoffMinPoints ==
    /\ fn = "guardrail1"
    /\ out.tries < BackoffTries
    /\ UNCHANGED <<inp, qvars>>
    /\ \E o \in SimplifyOutcomes(inp.n, inp.min_points) :
          IF o.type = "LineString" /\ o.count >= inp.min_points
          THEN /\ fn' = "returned"
               /\ out' = [count |-> o.count, branch |-> "guardrail1",
                          tries |-> out.tries + 1, tol_deg |-> Backoff(out.tol_deg)]
          ELSE /\ fn' = fn
               /\ out' = [out EXCEPT !.tries = out.tries + 1,
                                     !.tol_deg = Backoff(out.tol_deg)]

\* guardrail 2, one turn of the loop
BackoffReduction ==
    /\ fn = "guardrail2"
    /\ out.tries < BackoffTries
    /\ UNCHANGED <<inp, qvars>>
    /\ \E o \in SimplifyOutcomes(inp.n, inp.min_points) :
          IF o.type = "LineString"
             /\ ~RemovedTooMany(inp.n, o.count, inp.max_point_reduction)
          THEN /\ fn' = "returned"
               /\ out' = [count |-> o.count, branch |-> "guardrail2",
                          tries |-> out.tries + 1, tol_deg |-> Backoff(out.tol_deg)]
          ELSE /\ fn' = fn
               /\ out' = [out EXCEPT !.tries = out.tries + 1,
                                     !.tol_deg = Backoff(out.tol_deg)]

\* either loop ran out: return line
BackoffGivesUp ==
    /\ fn \in {"guardrail1", "guardrail2"}
    /\ out.tries = BackoffTries
    /\ SimplifyReturn(inp.n, "gave_up")
    /\ UNCHANGED <<inp, qvars>>

NextSimplify == SimplifyFirst \/ BackoffMinPoints \/ BackoffReduction \/ BackoffGivesUp

SpecSimplify == InitSimplify /\ [][NextSimplify]_vars

\* C11: a line of at least min_points vertices comes back with at least
\* min_points vertices, whatever max_point_reduction is, whatever each
\* simplification gave and whichever return statement is taken.
C11_KeepsMinPoints ==
    (fn = "returned" /\ inp.n >= inp.min_points) => out.count >= inp.min_points

C11_Witness ==
    /\ fn = "returned"
    /\ inp.n = ScenarioPoints
    /\ inp.min_points = DefaultSimplifyMinPoints
    /\ out.branch = "guardrail2"
    /\ out.tries >= 2
    /\ out.count < inp.n

(***************************************************************************)
(* select_and_merge_point_routes.  A point pair is <<lat, lon>>, a path    *)
(* point is <<lon, lat>>.  Lengths are measured in degrees of latitude:    *)
(* m_per_deg_lat is the unit, and the latitudes of the model lie within a  *)
(* few units of the equator, where the cosine is 1 to the precision of the *)
(* grid.  A distance is carried as its square.                             *)
(***************************************************************************)
_meters_per_degree(lat_deg) == <<Whole2(1), Whole2(1)>>

\* math.hypot(dx, dy), squared
Hypot2(dx, dy) == FAdd(FMul(dx, dx), FMul(dy, dy))

\* the closest point of the segment a-b to p: t clamped to [0, 1]
Projected(a, ab, t0) ==
    LET t == IF FLt(t0, Whole2(0)) THEN Whole2(0)
             ELSE IF FLt(Whole2(1), t0) THEN Whole2(1) ELSE t0
    IN <<FAdd(a[1], FMul(t, ab[1])), FAdd(a[2], FMul(t, ab[2]))>>

\* math.hypot(pxm - cx, pym - cy), squared
ClosestDistance(P, c) == Hypot2(FSub(P[1], c[1]), FSub(P[2], c[2]))

\* the distance of P to the segment A-B, all three in meters
SegmentDistance(P, A, ab, ap, ab2) ==
    IF FZero(ab2) THEN Hypot2(ap[1], ap[2])
    ELSE ClosestDistance(P, Projected(A, ab, FDiv(FAdd(FMul(ap[1], ab[1]),
                                                       FMul(ap[2], ab[2])), ab2)))

\* ap = P - A and ab2 = |ab|^2
DistanceAlong(P, A, ab) ==
    SegmentDistance(P, A, ab, <<FSub(P[1], A[1]), FSub(P[2], A[2])>>, Hypot2(ab[1], ab[2]))

\* ab = B - A
ProjectedDistance(P, A, B) == DistanceAlong(P, A, <<FSub(B[1], A[1]), FSub(B[2], A[2])>>)

\* a point in meters: (x * m_lon, y * m_lat)
InMeters(x, y, m) == <<FMul(x, m[2]), FMul(y, m[1])>>

\* P, A and B projected with the factors m of the mean latitude
DistanceAt(px, py, x1, y1, x2, y2, m) ==
    ProjectedDistance(InMeters(px, py, m), InMeters(x1, y1, m), InMeters(x2, y2, m))

_point_segment_distance_m(px, py, x1, y1, x2, y2) ==
    DistanceAt(px, py, x1, y1, x2, y2,
               _meters_per_degree(FDiv(FAdd(FAdd(py, y1), y2), Whole2(3))))

\* the distances of the point to the segments of one path
SegmentDistances(path, point_pair) ==
    List([i \in 1..(Len(path) - 1) |->
            _point_segment_distance_m(point_pair[2], point_pair[1],
                                      path[i][1], path[i][2],
                                      path[i + 1][1], path[i + 1][2])])

RECURSIVE FMin(_)
FMin(ds) ==
    IF Len(ds) = 1 THEN ds[1]
    ELSE LET rest == FMin(Tail(ds)) IN IF FLt(rest, ds[1]) THEN rest ELSE ds[1]

\* [none |-> TRUE] for None, else the least distance over all segments
_min_point_to_polyline_distance_m(polyline, point_pair) ==
    LET ds == Flatten(List([k \in 1..Len(polyline.paths) |->
                               SegmentDistances(polyline.paths[k], point_pair)]))
    IN IF polyline.none \/ ds = <<>>
       THEN [none |-> TRUE, d |-> Whole2(0)]
       ELSE [none |-> FALSE, d |-> FMin(ds)]

\* d is not None and d <= tolerance_m
WithinTolerance_Always(dist, tolerance_m) == TRUE
WithinTolerance(dist, tolerance_m) ==
    ~dist.none /\ tolerance_m >= 0 /\ FLe(dist.d, Whole2(tolerance_m * tolerance_m))

NoOid == "None"
\* (f.get("attributes") or {}).get("OBJECTID")
Oid(f) == f.oid

\* step 3: the features with paths whose clip is not empty
RECURSIVE ClipFeatures(_, _)
ClipFeatures(features, envelope) ==
    IF features = <<>> THEN <<>>
    ELSE LET f == Head(features)
             cg == _clip_polyline_to_bbox(f.geometry, envelope)
             rest == ClipFeatures(Tail(features), envelope)
         IN IF f.geometry = <<>> \/ cg.none THEN rest
            ELSE <<[feature |-> f, clipped |-> cg]>> \o rest

\* step 4: the match list of one point
RECURSIVE Matches(_, _, _)
Matches(clipped, point_pair, tolerance_m) ==
    IF clipped = <<>> THEN <<>>
    ELSE LET dist == _min_point_to_polyline_distance_m(Head(clipped).clipped, point_pair)
             rest == Matches(Tail(clipped), point_pair, tolerance_m)
         IN IF WithinTolerance(dist, tolerance_m)
            THEN <<[objectid |-> Oid(Head(clipped).feature), distance_m |-> dist.d]>> \o rest
            ELSE rest

\* any(m["objectid"] == oid for m in matches)
InMatches(matches, oid) == \E k \in 1..Len(matches) : matches[k].objectid = oid

\* the indices the loop of lines 1704-1712 adds to selected_indices
SelectedIndices(clipped, bop_matches, eop_matches) ==
    {i \in 1..Len(clipped) :
        \/ InMatches(bop_matches, Oid(clipped[i].feature))
        \/ InMatches(eop_matches, Oid(clipped[i].feature))}

\* the values of the indices of a set, in increasing order of index
RECURSIVE Pick(_, _, _)
Pick(seq, indices, i) ==
    IF i > Len(seq) THEN <<>>
    ELSE (IF i \in indices THEN <<seq[i]>> ELSE <<>>) \o Pick(seq, indices, i + 1)

Failure(message, bop_matches, eop_matches) ==
    [raised |-> FALSE, success |-> FALSE, message |-> message,
     merged_geometry |-> [none |-> TRUE, paths |-> <<>>],
     selected_objectids |-> <<>>,
     bop_matches |-> bop_matches, eop_matches |-> eop_matches]

\* a list of ids that has an entry for every candidate
SelectedId_Always(rec) == <<Oid(rec.feature)>>
\* if oid is not None: selected_objectids.append(oid)
SelectedId(rec) == IF Oid(rec.feature) /= NoOid THEN <<Oid(rec.feature)>> ELSE <<>>

\* step 5: the merge of the selected candidates
Merged(chosen, bop_matches, eop_matches) ==
    [raised |-> FALSE, success |-> TRUE,
     message |-> <<"Merged route segments for points computed successfully.">>,
     merged_geometry |->
         [none |-> FALSE,
          paths |-> Flatten(List([k \in 1..Len(chosen) |-> chosen[k].clipped.paths]))],
     selected_objectids |->
         Flatten(List([k \in 1..Len(chosen) |-> SelectedId(chosen[k])])),
     bop_matches |-> bop_matches, eop_matches |-> eop_matches]

MergeSelected(clipped, bop_matches, eop_matches, selected) ==
    IF selected = {}
    THEN Failure(<<"No route segment within ", "tolerance_m", " m of either point.">>,
                 bop_matches, eop_matches)
    ELSE Merged(Pick(clipped, selected, 1), bop_matches, eop_matches)

SelectMatched(clipped, bop_matches, eop_matches) ==
    MergeSelected(clipped, bop_matches, eop_matches,
                  SelectedIndices(clipped, bop_matches, eop_matches))

MatchClipped(clipped, bop_pair, eop_pair, tolerance_m) ==
    IF clipped = <<>>
    THEN Failure(<<"No clipped route geometry inside the bounding box.">>, <<>>, <<>>)
    ELSE SelectMatched(clipped, Matches(clipped, bop_pair, tolerance_m),
                       Matches(clipped, eop_pair, tolerance_m))

\* the body of the try block once the query has returned the features
SelectAndMerge(bop_pair, eop_pair, tolerance_m, envelope, features) ==
    IF features = <<>>
    THEN Failure(<<"No route features found in bounding box.">>, <<>>, <<>>)
    ELSE MatchClipped(ClipFeatures(features, envelope), bop_pair, eop_pair, tolerance_m)

\* a handler that lets the exception of the query through
Caught_Nothing(e) ==
    [raised |-> TRUE, success |-> FALSE, message |-> <<e>>,
     merged_geometry |-> [none |-> TRUE, paths |-> <<>>],
     selected_objectids |-> <<>>, bop_matches |-> <<>>, eop_matches |-> <<>>]
\* except Exception as e
Caught(e) == Failure(<<"Error during select_and_merge_point_routes: ", e>>, <<>>, <<>>)

(***************************************************************************)
(* inp = [bop_pair, eop_pair, tolerance_m, envelope, features]: the call   *)
(* and the features the layer returns for the envelope.                    *)
(***************************************************************************)
MaxFeatures == 2

\* (lat, lon) pairs in the envelope
BopPoints == {<<Whole2(1), Whole2(1)>>, <<Whole2(2), Whole2(1)>>}
EopPoints == {<<Whole2(3), Whole2(3)>>, <<Whole2(1), Whole2(1)>>}

\* no geometry; through (1,1); through (3,3); through both; inside the
\* envelope but far from the points; outside the envelope; a line that
\* leaves the envelope and comes back
RouteGeometries ==
    {<<>>,
     << <<Pt(0, 1), Pt(2, 1)>> >>,
     << <<Pt(3, 2), Pt(3, 4)>> >>,
     << <<Pt(1, 1), Pt(3, 3)>> >>,
     << <<Pt(1, 3), Pt(2, 3)>> >>,
     << <<Pt(0, 0), Pt(4, 0)>> >>,
     << <<Pt(1, 2), Pt(0, 2), Pt(0, 3), Pt(1, 3)>> >>}

ObjectIds == {NoOid, "7", "8"}
Features == [oid : ObjectIds, geometry : RouteGeometries]
FeatureLists == UNION {[1..n -> Features] : n \in 0..MaxFeatures}

\* what str(e) gives for the exceptions of the query
QueryErrors == {"", "ArcGIS error"}

InitMatch ==
    /\ QueryIdle
    /\ fn = "points"
    /\ inp \in {[bop_pair |-> b, eop_pair |-> e, tolerance_m |-> t,
                 envelope |-> Envelope(1, 1, 3, 3), features |-> fs] :
                    b \in BopPoints, e \in EopPoints, t \in {0, 1}, fs \in FeatureLists}
    /\ out = Failure(<<>>, <<>>, <<>>)

\* _query_intersecting_routes returns the features
QueryReturns ==
    /\ fn = "points"
    /\ fn' = "returned"
    /\ out' = SelectAndMerge(inp.bop_pair, inp.eop_pair, inp.tolerance_m,
                             inp.envelope, inp.features)
    /\ UNCHANGED <<inp, qvars>>

\* _query_intersecting_routes raises
QueryRaises ==
    /\ fn = "points"
    /\ \E e \in QueryErrors :
          /\ fn' = "raised"
          /\ out' = Caught(e)
    /\ UNCHANGED <<inp, qvars>>

NextMatch == QueryReturns \/ QueryRaises

SpecMatch == InitMatch /\ [][NextMatch]_vars

Candidates == ClipFeatures(inp.features, inp.envelope)
OwnMatch(rec) ==
    \/ WithinTolerance(_min_point_to_polyline_distance_m(rec.clipped, inp.bop_pair),
                       inp.tolerance_m)
    \/ WithinTolerance(_min_point_to_polyline_distance_m(rec.clipped, inp.eop_pair),
                       inp.tolerance_m)
NonEmptyMessage(m) == \E i \in 1..Len(m) : m[i] /= ""
ReportedFailure ==
    /\ ~out.raised
    /\ ~out.success
    /\ out.merged_geometry.none
    /\ NonEmptyMessage(out.message)

\* C12: when the query returns no features, when no candidate survives the
\* clipping, when no candidate is within the tolerance of either point, and
\* when the query raises, the call returns success = False, merged_geometry
\* = None and a message that is not empty, and no exception leaves it.
C12_FailureIsAValue ==
    /\ (fn = "returned" /\
        (inp.features = <<>>
         \/ LET cands == Candidates
            IN cands = <<>> \/ \A k \in 1..Len(cands) : ~OwnMatch(cands[k]))) => ReportedFailure
    /\ fn = "raised" => ReportedFailure

C12_Witness ==
    /\ fn = "returned"
    /\ Len(Candidates) = 2
    /\ \A k \in 1..Len(Candidates) : ~OwnMatch(Candidates[k])
    /\ out.message[1] = "No route segment within "

\* the paths of a candidate are among the merged paths
Contributes(rec) ==
    /\ ~out.merged_geometry.none
    /\ \A k \in 1..Len(rec.clipped.paths) :
          \E j \in 1..Len(out.merged_geometry.paths) :
             out.merged_geometry.paths[j] = rec.clipped.paths[k]
SharesOid(i, j) == Oid(Candidates[i].feature) = Oid(Candidates[j].feature)

\* C13 as stated: whatever the OBJECTIDs of the candidates are, a clipped
\* candidate is in the merged geometry if and only if its own least distance
\* to the begin point or to the end point is within the tolerance.
C13_AnyMatchSelection ==
    fn = "returned" =>
        \A k \in 1..Len(Candidates) : Contributes(Candidates[k]) <=> OwnMatch(Candidates[k])

\* C13, what the code does: a clipped candidate is in the merged geometry
\* if and only if a candidate of the same OBJECTID (itself, or another one,
\* None being an OBJECTID like any other) is within the tolerance of the
\* begin point or of the end point.
C13_SelectionByObjectId ==
    fn = "returned" =>
        \A k \in 1..Len(Candidates) :
            Contributes(Candidates[k]) <=>
                \E j \in 1..Len(Candidates) : SharesOid(j, k) /\ OwnMatch(Candidates[j])

\* a candidate too far from both points is merged because it has the
\* OBJECTID (here: none) of one that is near
C13_Witness ==
    /\ fn = "returned"
    /\ out.success
    /\ \E k \in 1..Len(Candidates) :
          /\ Oid(Candidates[k].feature) = NoOid
          /\ ~OwnMatch(Candidates[k])
          /\ Contributes(Candidates[k])

(***************************************************************************)
(* _build_envelope_square_meters.  The function works in double precision, *)
(* where a term more than 2^53 times smaller than the other is lost in a   *)
(* sum.  A number of the model is <<n, d, e>>, the rational n/d at the     *)
(* order of magnitude e: order 0 holds the degrees and meters of ordinary  *)
(* size, order 1 the numbers of the size of cos(90 degrees), which is      *)
(* 6.1e-17 and not 0 in double precision, order -1 their reciprocals.  At  *)
(* one order the arithmetic is exact; in a sum of two orders the smaller   *)
(* term is lost.                                                           *)
(***************************************************************************)
Num(n, d, e) == LET f == Frac(n, d) IN IF f[1] = 0 THEN <<0, 1, 0>> ELSE <<f[1], f[2], e>>
Std(n) == Num(n, 1, 0)
MZero(a) == a[1] = 0
MNeg(a) == <<0 - a[1], a[2], a[3]>>
MAdd(a, b) ==
    IF MZero(a) THEN b
    ELSE IF MZero(b) THEN a
    ELSE IF a[3] = b[3]
    THEN LET l == (a[2] \div Gcd(a[2], b[2])) * b[2]
         IN Num(a[1] * (l \div a[2]) + b[1] * (l \div b[2]), l, a[3])
    ELSE IF a[3] < b[3] THEN a ELSE b
MSub(a, b) == MAdd(a, MNeg(b))
MMul(a, b) ==
    LET p == Frac(a[1], b[2])
        q == Frac(b[1], a[2])
    IN Num(p[1] * q[1], p[2] * q[2], a[3] + b[3])
MDiv(a, b) == IF b[1] < 0 THEN MMul(a, <<0 - b[2], 0 - b[1], 0 - b[3]>>)
              ELSE MMul(a, <<b[2], b[1], 0 - b[3]>>)
MLt(a, b) == MSub(a, b)[1] < 0
MMax(a, b) == IF MLt(a, b) THEN b ELSE a
MMin(a, b) == IF MLt(b, a) THEN b ELSE a

MetersPerDegree == 111320
MinimumSide == 50
OffPoleDivisor == 1000000000

\* math.cos(math.radians(cy)) at the latitudes of the model
Cos(cy) ==
    IF cy = Std(0) THEN Std(1)
    ELSE IF cy \in {Std(60), Std(0 - 60)} THEN Num(1, 2, 0)
    ELSE Num(1, 1, 1)

\* the side when no target side is given: the floor only replaces a side
\* that is not positive
SideFromBox_Floored(width_m, height_m, margin_m) ==
    MMax(Std(MinimumSide), MAdd(MMax(width_m, height_m), margin_m))
SideFromBox(width_m, height_m, margin_m) ==
    LET side_m == MAdd(MMax(width_m, height_m), margin_m)
    IN IF ~MLt(Std(0), side_m) THEN Std(MinimumSide) ELSE side_m

SideFromTarget(square_side_m) ==
    LET side_m == MMax(Std(0), square_side_m)
    IN IF MZero(side_m) THEN Std(MinimumSide) ELSE side_m

\* a divisor that gives x the half-width of y: a square in degrees
LonDivisor_AsLat(m_per_deg_lon) == Std(MetersPerDegree)
\* (m_per_deg_lon if m_per_deg_lon > 0 else 1e9)
LonDivisor(m_per_deg_lon) ==
    IF MLt(Std(0), m_per_deg_lon) THEN m_per_deg_lon ELSE Std(OffPoleDivisor)

\* square_side_m is [given, value]; the result carries side_m and the centre
\* next to the envelope
_build_envelope_square_meters(bop_pair, eop_pair, pad_deg, square_side_m, margin_m) ==
    LET pad == IF MLt(pad_deg, Std(0)) THEN Std(0) ELSE pad_deg
        bx0 == MSub(MMin(bop_pair[2], eop_pair[2]), pad)
        bx1 == MAdd(MMax(bop_pair[2], eop_pair[2]), pad)
        by0 == MSub(MMin(bop_pair[1], eop_pair[1]), pad)
        by1 == MAdd(MMax(bop_pair[1], eop_pair[1]), pad)
        cx == MDiv(MAdd(bx0, bx1), Std(2))
        cy == MDiv(MAdd(by0, by1), Std(2))
        m_per_deg_lat == Std(MetersPerDegree)
        m_per_deg_lon == MMul(Std(MetersPerDegree), MMax(Std(0), Cos(cy)))
        width_deg == MMax(Std(0), MSub(bx1, bx0))
        height_deg == MMax(Std(0), MSub(by1, by0))
        width_m == MMul(width_deg, IF MLt(Std(0), m_per_deg_lon) THEN m_per_deg_lon ELSE Std(0))
        height_m == MMul(height_deg, m_per_deg_lat)
        side_m == IF ~square_side_m.given THEN SideFromBox(width_m, height_m, margin_m)
                  ELSE SideFromTarget(square_side_m.value)
        half_deg_lon == MDiv(MDiv(side_m, LonDivisor(m_per_deg_lon)), Std(2))
        half_deg_lat == MDiv(MDiv(side_m, m_per_deg_lat), Std(2))
    IN [xmin |-> MMax(Std(0 - 180), MSub(cx, half_deg_lon)),
        xmax |-> MMin(Std(180), MAdd(cx, half_deg_lon)),
        ymin |-> MMax(Std(0 - 90), MSub(cy, half_deg_lat)),
        ymax |-> MMin(Std(90), MAdd(cy, half_deg_lat)),
        side_m |-> side_m, cx |-> cx, cy |-> cy,
        half_deg_lon |-> half_deg_lon, half_deg_lat |-> half_deg_lat]

(***************************************************************************)
(* inp = [bop_pair, eop_pair, pad_deg, square_side_m]; margin_m is 0.      *)
(***************************************************************************)
\* the latitudes of the two points: on a pole, or one degree apart or
\* equal about the equator and about 60 north and south
LatPairs ==
    {<<Std(c), Std(c)>> : c \in {0 - 90, 0 - 60, 0, 60, 90}}
    \cup {<<Std(c - 1), Std(c + 1)>> : c \in {0 - 60, 0, 60}}
\* the longitudes: equal or one degree apart, the 180 meridians included
LonPairs ==
    {<<Std(x), Std(x)>> : x \in {0 - 180, 0 - 150, 0, 180}}
    \cup {<<Std(0 - 180), Std(0 - 179)>>, <<Std(0 - 150), Std(0 - 149)>>,
          <<Std(10), Std(11)>>, <<Std(180), Std(179)>>}
\* negative, none, 0.0001, the default 0.0005, and wider than the globe
Pads == {Std(0 - 1), Std(0), Num(1, 10000, 0), Num(1, 2000, 0), Std(200)}
\* None, 0, negative, 10 m, 50 m, one degree of latitude, and a positive
\* side of the order of 1e-17 m
TargetSides ==
    {[given |-> FALSE, value |-> Std(0)]}
    \cup {[given |-> TRUE, value |-> v] :
             v \in {Std(0), Std(0 - 1), Std(10), Std(MinimumSide), Std(MetersPerDegree),
                    Num(1, 1, 1)}}

NoEnvelope ==
    [xmin |-> Std(0), xmax |-> Std(0), ymin |-> Std(0), ymax |-> Std(0), side_m |-> Std(0),
     cx |-> Std(0), cy |-> Std(0), half_deg_lon |-> Std(0), half_deg_lat |-> Std(0)]

InitEnvelope ==
    /\ QueryIdle
    /\ fn = "points"
    /\ \E lat \in LatPairs, lon \in LonPairs :
          inp \in [bop_pair : {<<lat[1], lon[1]>>}, eop_pair : {<<lat[2], lon[2]>>},
                   pad_deg : Pads, square_side_m : TargetSides]
    /\ out = NoEnvelope

BuildEnvelope ==
    /\ fn = "points"
    /\ fn' = "envelope"
    /\ out' = _build_envelope_square_meters(inp.bop_pair, inp.eop_pair, inp.pad_deg,
                                            inp.square_side_m, Std(0))
    /\ UNCHANGED <<inp, qvars>>

NextEnvelope == BuildEnvelope

SpecEnvelope == InitEnvelope /\ [][NextEnvelope]_vars

MLe(a, b) == ~MLt(b, a)
InRange ==
    /\ MLe(Std(0 - 180), out.xmin) /\ MLe(out.xmax, Std(180))
    /\ MLe(Std(0 - 90), out.ymin) /\ MLe(out.ymax, Std(90))
OnPole(pair) == pair[1] \in {Std(90), Std(0 - 90)}

\* C14 as stated: for every pair of points, every pad and every target
\* side the envelope has xmax > xmin and ymax > ymin and lies within
\* latitude -90..90 and longitude -180..180.
C14_EnvelopeInvariant ==
    fn = "envelope" => (MLt(out.xmin, out.xmax) /\ MLt(out.ymin, out.ymax) /\ InRange)

\* C14, what holds: the envelope lies within the valid ranges with xmax >=
\* xmin and ymax >= ymin, and it has a width and a height whenever the side
\* is of ordinary size.
C14_EnvelopeInRange ==
    fn = "envelope" =>
        /\ InRange
        /\ MLe(out.xmin, out.xmax) /\ MLe(out.ymin, out.ymax)
        /\ out.side_m[3] = 0 => (MLt(out.xmin, out.xmax) /\ MLt(out.ymin, out.ymax))

\* two points on the north pole, no pad, no target side: ymin = ymax = 90
C14_Witness ==
    /\ fn = "envelope"
    /\ OnPole(inp.bop_pair) /\ inp.bop_pair[2] /= inp.eop_pair[2]
    /\ inp.pad_deg = Std(0) /\ ~inp.square_side_m.given
    /\ out.ymin = out.ymax
    /\ MLt(out.xmin, out.xmax)

\* the width and the height of the envelope in meters, with the factors of
\* the centre latitude
WidthMeters == MMul(MSub(out.xmax, out.xmin), MMul(Std(MetersPerDegree), Cos(out.cy)))
HeightMeters == MMul(MSub(out.ymax, out.ymin), Std(MetersPerDegree))
MAbs(a) == IF a[1] < 0 THEN MNeg(a) ELSE a
NearlySquare == MLt(MAbs(MSub(WidthMeters, HeightMeters)), Std(1))
\* the clamp to -180..180 and -90..90 changed a side of the square
Cut ==
    \/ MLt(MSub(out.cx, out.half_deg_lon), Std(0 - 180))
    \/ MLt(Std(180), MAdd(out.cx, out.half_deg_lon))
    \/ MLt(MSub(out.cy, out.half_deg_lat), Std(0 - 90))
    \/ MLt(Std(90), MAdd(out.cy, out.half_deg_lat))
ScenarioPoint == <<Std(60), Std(0 - 150)>>
ScenarioEnvelope ==
    /\ fn = "envelope"
    /\ inp.bop_pair = ScenarioPoint /\ inp.eop_pair = ScenarioPoint
    /\ inp.pad_deg = Std(0) /\ ~inp.square_side_m.given

\* C15 as stated: every envelope has the same width and height in meters
\* (they differ by less than 1 m), the one around (60, -150) with no pad and
\* no target side among them.
C15_SquareInMeters == fn = "envelope" => NearlySquare

\* C15: the envelope around (60, -150) with no pad and no target side is
\* 50 m wide and 50 m high; every envelope that the clamp to the valid
\* ranges did not cut has a width and a height in meters that differ by less
\* than 1 m, both equal to the side when the side is of ordinary size, and
\* its half-widths in degrees differ wherever the cosine of the centre
\* latitude is not 1.
C15_SquareUnlessCut ==
    /\ ScenarioEnvelope => (WidthMeters = Std(MinimumSide) /\ HeightMeters = Std(MinimumSide))
    /\ (fn = "envelope" /\ ~Cut) =>
          /\ NearlySquare
          /\ out.side_m[3] = 0 => (WidthMeters = out.side_m /\ HeightMeters = out.side_m)
          /\ Cos(out.cy) /= Std(1) => out.half_deg_lon /= out.half_deg_lat

C15_Witness ==
    /\ ScenarioEnvelope
    /\ ~Cut
    /\ out.half_deg_lon = Num(5, 11132, 0)
    /\ out.half_deg_lat = Num(5, 22264, 0)

(***************************************************************************)
(* The query on a geometry without coordinates.                            *)
(***************************************************************************)
Invalid(geom) == geom.form = "invalid"
Finished == pc \in {"returned", "raised"}

\* C16 as stated: for an input that is not empty and holds no valid
\* coordinate the classification fails with a validation error, nothing is
\* passed through, and no remote call and no chunk attempt is made for it.
C16_FailsFast ==
    Invalid(geometry) =>
        /\ calls = <<>>
        /\ attempts = <<>>
        /\ Finished => outcome = Raised("ValidationError", 0)

\* C16, what the code does: the classifiers return "not a route" and "not
\* a polygon", the full call is made with the geometry as it is and fails,
\* no chunk attempt follows, and the failure of the full call is raised again.
C16_FullCallThenRaise ==
    Invalid(geometry) =>
        /\ ~is_route /\ ~is_poly
        /\ _chunk_route_geometry(geometry, session_state.max_points) = <<Whole(geometry)>>
        /\ attempts = <<>>
        /\ Finished =>
              /\ calls = <<CallRecord(Whole(geometry), FALSE)>>
              /\ outcome = Raised("RemoteError", 0)

C16_Witness ==
    /\ Invalid(geometry)
    /\ Finished
    /\ enable_route_chunking /\ enable_polygon_chunking
    /\ Len(calls) = 1

(***************************************************************************)
(* The shape of the chunks of one path.                                    *)
(***************************************************************************)
\* where chunk k starts in the path when each chunk starts on the last
\* point of the one before
RECURSIVE ChunkStart(_, _)
ChunkStart(segs, k) ==
    IF k = 1 THEN 1 ELSE ChunkStart(segs, k - 1) + Len(segs[k - 1]) - 1
ChunkedPath == inp.route.paths[1]

\* C17: of a path of at least 2 points every chunk of _chunk_points has at
\* least 2 and at most max(2, max_points) points, whatever max_points is;
\* chunk k + 1 starts at the position of the path where chunk k ends, so two
\* consecutive chunks have exactly that one position in common, and the
\* last chunk ends where the path ends.
C17_ChunkShape ==
    (fn = "_chunk_points" /\ Len(ChunkedPath) >= 2) =>
        /\ out /= <<>>
        /\ \A k \in 1..Len(out) :
              /\ Len(out[k]) >= 2
              /\ Len(out[k]) <= Max2(2, inp.max_points)
              /\ ChunkStart(out, k) + Len(out[k]) - 1 <= Len(ChunkedPath)
              /\ out[k] = SubSeq(ChunkedPath, ChunkStart(out, k),
                                 ChunkStart(out, k) + Len(out[k]) - 1)
        /\ \A k \in 1..(Len(out) - 1) : Last(out[k]) = out[k + 1][1]
        /\ ChunkStart(out, Len(out)) + Len(out[Len(out)]) - 1 = Len(ChunkedPath)

\* three chunks, the last one shorter than the others
C17_Witness ==
    /\ fn = "_chunk_points"
    /\ Len(ChunkedPath) = MaxPathLen
    /\ inp.max_points = 3
    /\ Len(out) = 3
    /\ Len(out[3]) = 2
    /\ out[2][1] = out[1][3]

(***************************************************************************)
(* The order of the merged lists.                                          *)
(***************************************************************************)
FirstIndex(seq, x) == CHOOSE i \in 1..Len(seq) : seq[i] = x /\ \A j \in 1..(i - 1) : seq[j] /= x
\* result holds the values of seen other than None, each once, in the order
\* of their first occurrence in seen
InFirstSeenOrder(result, seen) ==
    /\ NoDup(result)
    /\ Range(result) = Range(seen) \ {None}
    /\ \A i, j \in 1..Len(result) :
          i < j => FirstIndex(seen, result[i]) < FirstIndex(seen, result[j])

\* the lists the calls of the attempt returned, one after the other
CallIds == Flatten(List([k \in 1..Len(calls) |-> calls[k].ids]))
CallLabels == Flatten(List([k \in 1..Len(calls) |-> _split_string_values(calls[k].labels)]))

\* the features the layer found for the chunks, one chunk after the other,
\* in the order of the layer's answers
AnswerFeatures == Flatten(List([k \in 1..Len(geoms) |-> _execute_query_multiple(geoms[k])]))
AnswerIds == List([i \in 1..Len(AnswerFeatures) |-> AnswerFeatures[i].id])
AnswerLabels ==
    Flatten(List([i \in 1..Len(AnswerFeatures) |->
                     IF AnswerFeatures[i].label = <<>> THEN <<>>
                     ELSE _split_string_values(AnswerFeatures[i].label[1])]))

\* the calls made so far are the calls of the first chunks, in their order
CallsInChunkOrder ==
    /\ Len(calls) <= Len(geoms)
    /\ \A k \in 1..Len(calls) :
          /\ calls[k].kind = geoms[k].kind
          /\ calls[k].points = NumPoints(geoms[k])
          /\ calls[k].ok => calls[k].paths = geoms[k].paths
          /\ k < Len(calls) => calls[k].ok

\* C18 as stated: the same answers of the layer always give the same merged
\* lists: the merged ids and labels are in the order in which the layer's
\* answers, taken in chunk order, first show them.
C18_OrderOfAnswers ==
    ReturnedByAttempt =>
        /\ InFirstSeenOrder(outcome.list_values, AnswerIds)
        /\ InFirstSeenOrder(merged_labels_list, AnswerLabels)

\* C18: the calls of an attempt are made one after the other in the order of
\* the chunks, each after the one before returned; the merged ids and labels
\* are in the order in which the lists that _call_intersect returned, taken
\* in that order, first show them.  The order inside the list of one call is
\* the order of list(set(values)), not the order of the layer's answer.
C18_OrderOfCallResults ==
    /\ pc \in {"route_calls", "polygon_calls"} => (Len(calls) = idx /\ CallsInChunkOrder)
    /\ ReturnedByAttempt =>
          /\ Len(calls) = Len(geoms)
          /\ CallsInChunkOrder
          /\ InFirstSeenOrder(outcome.list_values, CallIds)
          /\ InFirstSeenOrder(merged_labels_list, CallLabels)
          /\ outcome.string_values = Join(<<",", " ">>, merged_labels_list)

\* two chunks returned different ids, the second one also an id of the first
C18_Witness ==
    /\ ReturnedByAttempt
    /\ Len(calls) >= 2
    /\ Len(outcome.list_values) >= 2
    /\ \E k \in 2..Len(calls) :
          /\ calls[k].ids /= <<>>
          /\ \E i \in 1..Len(calls[k].ids) : calls[k].ids[i] \in Range(calls[1].ids)
          /\ \E i \in 1..Len(calls[k].ids) : calls[k].ids[i] \notin Range(calls[1].ids)

(***************************************************************************)
(* The sub-paths of the clipped polyline.                                  *)
(***************************************************************************)
Between(a, v, b) == (FLe(a, v) /\ FLe(v, b)) \/ (FLe(b, v) /\ FLe(v, a))
\* the point lies on the segment a-b
OnSegment(pt, a, b) ==
    /\ FMul(FSub(b[1], a[1]), FSub(pt[2], a[2])) = FMul(FSub(b[2], a[2]), FSub(pt[1], a[1]))
    /\ Between(a[1], pt[1], b[1])
    /\ Between(a[2], pt[2], b[2])
\* p-q is a piece of one segment of the input polyline
PieceOfInput(p, q) ==
    \E k \in 1..Len(inp.polyline) : \E i \in 1..(Len(inp.polyline[k]) - 1) :
        /\ OnSegment(p, inp.polyline[k][i], inp.polyline[k][i + 1])
        /\ OnSegment(q, inp.polyline[k][i], inp.polyline[k][i + 1])

\* C19 as stated: every segment of every sub-path the clipper returns is a
\* piece of a single segment of the input: no segment joins the point where
\* the line leaves the envelope to another point where it comes back.
C19_SegmentsAreInputPieces ==
    fn = "clip" =>
        \A k \in 1..Len(out.paths) : \A i \in 1..(Len(out.paths[k]) - 1) :
            PieceOfInput(out.paths[k][i], out.paths[k][i + 1])

\* the line (2,2) - (2,4) - (1,2) in the envelope [1,3] x [1,3] leaves at
\* (2,3) and comes back at (1.5,3): one sub-path with the segment
\* (2,3) - (1.5,3), which is on no segment of the line
C19_Witness ==
    /\ fn = "clip"
    /\ inp.polyline = << <<Pt(2, 2), Pt(2, 4), Pt(1, 2)>> >>
    /\ inp.envelope = Envelope(1, 1, 3, 3)
    /\ out.paths = << <<Pt(2, 2), Pt(2, 3), <<Frac(3, 2), Whole2(3)>>, Pt(1, 2)>> >>
    /\ ~PieceOfInput(Pt(2, 3), <<Frac(3, 2), Whole2(3)>>)

(***************************************************************************)
(* _clip_segment_to_bbox, one pass of its loop at a time.                  *)
(* inp = [p1, p2, envelope]; out = [p1, p2, moves, none]: the end points   *)
(* as moved so far, the number of moves, and whether None was returned.    *)
(***************************************************************************)
SegGrid == 4
SegPoints == {Pt(x, y) : x \in 0..SegGrid, y \in 0..SegGrid}
ScenarioSegment == [p1 |-> Pt(0, 0), p2 |-> Pt(10, 10), envelope |-> Envelope(0, 0, 5, 5)]

InitSegment ==
    /\ QueryIdle
    /\ fn = "segment"
    /\ inp \in [p1 : SegPoints, p2 : SegPoints, envelope : Envelopes] \cup {ScenarioSegment}
    /\ out = [p1 |-> inp.p1, p2 |-> inp.p2, moves |-> 0, none |-> FALSE]

OutCode1 == code(out.p1[1], out.p1[2], inp.envelope)
OutCode2 == code(out.p2[1], out.p2[2], inp.envelope)

\* if not (c1 | c2): return (x1, y1, x2, y2)
SegmentAccepted ==
    /\ fn = "segment"
    /\ OutCode1 = 0 /\ OutCode2 = 0
    /\ fn' = "returned"
    /\ UNCHANGED <<inp, out, qvars>>

\* if c1 & c2: return None
SegmentRejected ==
    /\ fn = "segment"
    /\ ~(OutCode1 = 0 /\ OutCode2 = 0)
    /\ Shared(OutCode1, OutCode2)
    /\ fn' = "returned"
    /\ out' = [out EXCEPT !.none = TRUE]
    /\ UNCHANGED <<inp, qvars>>

\* the outside end point (the first one if it is outside) moves to a bound
MoveEndpoint ==
    /\ fn = "segment"
    /\ ~(OutCode1 = 0 /\ OutCode2 = 0)
    /\ ~Shared(OutCode1, OutCode2)
    /\ LET outc == IF OutCode1 /= 0 THEN OutCode1 ELSE OutCode2
           m == Moved(out.p1[1], out.p1[2], out.p2[1], out.p2[2], outc, inp.envelope)
       IN out' = IF outc = OutCode1
                 THEN [out EXCEPT !.p1 = m, !.moves = @ + 1]
                 ELSE [out EXCEPT !.p2 = m, !.moves = @ + 1]
    /\ UNCHANGED <<fn, inp, qvars>>

NextSegment == SegmentAccepted \/ SegmentRejected \/ MoveEndpoint

SpecSegment == InitSegment /\ [][NextSegment]_vars

FMax2(a, b) == IF FLt(a, b) THEN b ELSE a
FMin2(a, b) == IF FLt(b, a) THEN b ELSE a
\* the t in [0, 1] with lo <= a + t * d <= hi, as <<least, greatest>>; none
\* when least > greatest
AxisInterval(a, d, lo, hi) ==
    IF FZero(d)
    THEN IF FLe(lo, a) /\ FLe(a, hi) THEN <<Whole2(0), Whole2(1)>> ELSE <<Whole2(1), Whole2(0)>>
    ELSE LET t1 == FDiv(FSub(lo, a), d)
             t2 == FDiv(FSub(hi, a), d)
         IN <<FMax2(Whole2(0), FMin2(t1, t2)), FMin2(Whole2(1), FMax2(t1, t2))>>
\* the part of the segment p1-p2 that lies in the envelope
InsideInterval ==
    LET ix == AxisInterval(inp.p1[1], FSub(inp.p2[1], inp.p1[1]),
                           inp.envelope.xmin, inp.envelope.xmax)
        iy == AxisInterval(inp.p1[2], FSub(inp.p2[2], inp.p1[2]),
                           inp.envelope.ymin, inp.envelope.ymax)
    IN <<FMax2(ix[1], iy[1]), FMin2(ix[2], iy[2])>>
HasPointInBox == FLe(InsideInterval[1], InsideInterval[2])
PointAt(t) ==
    <<FAdd(inp.p1[1], FMul(t, FSub(inp.p2[1], inp.p1[1]))),
      FAdd(inp.p1[2], FMul(t, FSub(inp.p2[2], inp.p1[2])))>>

\* C20: the loop of _clip_segment_to_bbox makes at most 4 moves of an end
\* point; it returns None exactly when no point of the segment lies in the
\* box, and otherwise the part of the segment that lies in the box, from the
\* end nearer to the first point to the end nearer to the second; the
\* segment (0,0) - (10,10) in the box [0,5] x [0,5] gives (0,0) - (5,5).
C20_SegmentClip ==
    /\ fn \in {"segment", "returned"} => out.moves <= 4
    /\ fn = "returned" =>
          /\ out.none <=> ~HasPointInBox
          /\ ~out.none =>
                /\ out.p1 = PointAt(InsideInterval[1])
                /\ out.p2 = PointAt(InsideInterval[2])
          /\ inp = ScenarioSegment =>
                (~out.none /\ out.p1 = Pt(0, 0) /\ out.p2 = Pt(5, 5) /\ out.moves = 1)

\* a segment that crosses the box from outside to outside: both ends moved
C20_Witness ==
    /\ fn = "returned"
    /\ ~out.none
    /\ out.moves >= 2
    /\ out.p1 /= inp.p1 /\ out.p2 /= inp.p2
    /\ out.p1 /= out.p2

(***************************************************************************)
(* C21: the side of the envelope.                                          *)
(***************************************************************************)
\* the padded bounding box of the two points in meters, as lines 1382-1399
\* compute it from the inputs
BoxPad == IF MLt(inp.pad_deg, Std(0)) THEN Std(0) ELSE inp.pad_deg
BoxWidthDeg ==
    MMax(Std(0), MSub(MAdd(MMax(inp.bop_pair[2], inp.eop_pair[2]), BoxPad),
                      MSub(MMin(inp.bop_pair[2], inp.eop_pair[2]), BoxPad)))
BoxHeightDeg ==
    MMax(Std(0), MSub(MAdd(MMax(inp.bop_pair[1], inp.eop_pair[1]), BoxPad),
                      MSub(MMin(inp.bop_pair[1], inp.eop_pair[1]), BoxPad)))
BoxSide ==
    MMax(MMul(BoxWidthDeg, MMul(Std(MetersPerDegree), MMax(Std(0), Cos(out.cy)))),
         MMul(BoxHeightDeg, Std(MetersPerDegree)))

\* C21 as stated: the side used to build the envelope is never smaller
\* than 50 m.
C21_SideAtLeastFloor == fn = "envelope" => MLe(Std(MinimumSide), out.side_m)

\* C21: the side is the target side when one is given and positive, and
\* otherwise the larger of the width and the height in meters of the padded
\* bounding box when that is positive; 50 m replaces only a side that is
\* not positive, so the side is always positive and may be below 50 m.
C21_SideLength ==
    fn = "envelope" =>
        /\ MLt(Std(0), out.side_m)
        /\ inp.square_side_m.given =>
              out.side_m = IF MLt(Std(0), inp.square_side_m.value)
                           THEN inp.square_side_m.value ELSE Std(MinimumSide)
        /\ ~inp.square_side_m.given =>
              out.side_m = IF MLt(Std(0), BoxSide) THEN BoxSide ELSE Std(MinimumSide)

\* one point on the equator with a pad of 0.0001 degrees and no target
\* side: the box is 22.264 m wide and high, and that is the side
C21_Witness ==
    /\ fn = "envelope"
    /\ inp.bop_pair = <<Std(0), Std(0)>> /\ inp.eop_pair = inp.bop_pair
    /\ inp.pad_deg = Num(1, 10000, 0) /\ ~inp.square_side_m.given
    /\ out.side_m = Num(2783, 125, 0)
    /\ MLt(out.side_m, Std(MinimumSide))

(***************************************************************************)
(* C22, C23: the guardrails of _simplify_with_guardrails (SpecSimplify).   *)
(***************************************************************************)
\* C22 as stated: for every line of at least 3 vertices, every
\* max_point_reduction between 0 and 1 and every outcome of the
\* simplifications, the returned line has no more than max_point_reduction
\* of the original vertices removed, whichever branch returned it.
C22_ReductionBounded ==
    (fn = "returned" /\ inp.n >= 3 /\ inp.max_point_reduction \in 0..100) =>
        ~RemovedTooMany(inp.n, out.count, inp.max_point_reduction)

\* what holds: a line returned by any branch other than the backoff of the
\* min_points guardrail respects max_point_reduction
C22_ReductionBoundedOutsideGuardrail1 ==
    (fn = "returned" /\ inp.n >= 3 /\ inp.max_point_reduction \in 0..100
     /\ out.branch /= "guardrail1") =>
        ~RemovedTooMany(inp.n, out.count, inp.max_point_reduction)

\* the defaults: 1000 vertices, min_points 50, max_point_reduction 0.90;
\* the backoff of the min_points guardrail returns a line of 50 vertices
C22_Scenario ==
    /\ fn = "returned"
    /\ inp.n = ScenarioPoints
    /\ inp.min_points = DefaultSimplifyMinPoints
    /\ inp.max_point_reduction = DefaultMaxReductionPct
    /\ out.branch = "guardrail1"
    /\ out.count = DefaultSimplifyMinPoints
    /\ RemovedTooMany(inp.n, out.count, inp.max_point_reduction)

\* the calls of line.simplify made so far: none before the first, then one
\* more with every turn of a backoff loop
SimplifyRuns ==
    IF fn = "line" \/ (fn = "returned" /\ out.branch \in {"empty", "short"}) THEN 0
    ELSE 1 + out.tries

BackoffBounded ==
    /\ SimplifyRuns <= 1 + BackoffTries
    /\ out.tol_deg = <<1, Pow2(out.tries)>>
    /\ fn /= "returned" => ENABLED NextSimplify
    /\ fn = "returned" =>
          /\ out.branch = "gave_up" => (out.count = inp.n /\ out.tries = BackoffTries)
          /\ out.branch \in {"guardrail1", "guardrail2"} => out.tries \in 1..BackoffTries
          /\ out.branch \notin {"gave_up", "guardrail1", "guardrail2"} => out.tries = 0

OneBackoffLoop ==
    /\ fn = "guardrail1" => fn' \in {"guardrail1", "returned"}
    /\ fn = "guardrail2" => fn' \in {"guardrail2", "returned"}
    /\ fn = "returned" => fn' = "returned"
    /\ out'.tries \in {out.tries, out.tries + 1}
    /\ out'.tries = out.tries + 1 =>
          (fn \in {"guardrail1", "guardrail2"} /\ out'.tol_deg = FMul(out.tol_deg, <<1, 2>>))

\* C23: one call runs line.simplify at most 7 times, the first at the
\* adaptive tolerance and each retry at half the tolerance of the run
\* before; the retries all belong to the loop of one guardrail; every call
\* ends in a return statement; and a loop whose 6 retries all fail returns
\* the original line.
C23_BoundedBackoff == []BackoffBounded /\ [][OneBackoffLoop]_vars

\* 1000 vertices: the reduction guardrail gives up after its sixth retry, at
\* 1/64 of the adaptive tolerance, and the 1000 vertices come back
C23_Witness ==
    /\ fn = "returned"
    /\ inp.n = ScenarioPoints
    /\ out.branch = "gave_up"
    /\ out.tries = BackoffTries
    /\ out.tol_deg = <<1, 64>>
    /\ out.count = ScenarioPoints

(***************************************************************************)
(* _query_intersecting_routes (agol/agol_util.py): the paged query.  The   *)
(* layer holds the features 1..inp.total in that order.  An answer to a    *)
(* request at offset o is any run of features that starts behind o, with   *)
(* any value of exceededTransferLimit, or an error body.                   *)
(* inp = [total, max_page_size]; out = [features, result_offset, requests, *)
(* answers]: requests are the offsets sent, answers the [count, more] of   *)
(* the pages received.                                                     *)
(***************************************************************************)
MaxServerFeatures == 3
MaxPageSize == 2
MaxPageRequests == 4

\* an offset that moves by the size asked for, whatever came back
NextOffset_ByPage(result_offset, batch_len, max_page_size) == result_offset + max_page_size
\* result_offset += len(batch) if len(batch) > 0 else max_page_size
NextOffset(result_offset, batch_len, max_page_size) ==
    result_offset + (IF batch_len > 0 THEN batch_len ELSE max_page_size)

\* the features o+1 .. o+k of the layer
Batch(o, k) == List([i \in 1..k |-> o + i])

InitPages ==
    /\ QueryIdle
    /\ fn = "page"
    /\ inp \in [total : 0..MaxServerFeatures, max_page_size : 1..MaxPageSize]
    /\ out = [features |-> <<>>, result_offset |-> 0, requests |-> <<>>, answers |-> <<>>]

\* requests.get(endpoint, params) with resultOffset = result_offset
RequestPage ==
    /\ fn = "page"
    /\ Len(out.requests) < MaxPageRequests
    /\ fn' = "waiting"
    /\ out' = [out EXCEPT !.requests = Append(out.requests, out.result_offset)]
    /\ UNCHANGED <<inp, qvars>>

\* a body without "error": extend, then break or move the offset
PageReturns ==
    /\ fn = "waiting"
    /\ UNCHANGED <<inp, qvars>>
    /\ \E k \in 0..inp.max_page_size, more \in BOOLEAN :
          /\ out.result_offset + k <= Max2(inp.total, out.result_offset)
          /\ fn' = IF more THEN "page" ELSE "returned"
          /\ out' = [out EXCEPT
                        !.features = Extend(out.features, Batch(out.result_offset, k)),
                        !.answers = Append(out.answers, [count |-> k, more |-> more]),
                        !.result_offset =
                            IF more THEN NextOffset(out.result_offset, k, inp.max_page_size)
                            ELSE out.result_offset]

\* "error" in data: raise Exception
PageFails ==
    /\ fn = "waiting"
    /\ fn' = "raised"
    /\ UNCHANGED <<inp, out, qvars>>

NextPages == RequestPage \/ PageReturns \/ PageFails

SpecPages == InitPages /\ [][NextPages]_vars

\* the features received in the pages before page i
Accumulated(i) == SeqSum(List([j \in 1..(i - 1) |-> out.answers[j].count]))

\* the layer sets the flag exactly while features remain behind the page,
\* and a page is not empty while features remain behind its offset
HonestAnswer(i) ==
    /\ out.answers[i].more = (out.requests[i] + out.answers[i].count < inp.total)
    /\ out.requests[i] < inp.total => out.answers[i].count > 0
HonestLayer == fn /= "raised" /\ \A i \in 1..Len(out.answers) : HonestAnswer(i)

\* C24 as stated, the offsets: every page is requested at the number of
\* features accumulated before it.
C24_OffsetIsAccumulated == \A i \in 1..Len(out.requests) : out.requests[i] = Accumulated(i)

\* C24: at most one request is without its answer (the one in flight, or
\* the one whose body was an error); a further page is
\* requested exactly when the page before carried the flag; a page that
\* follows pages with features is requested at the number of features
\* accumulated, and after an empty page with the flag the offset moves on
\* by max_page_size; against a layer of N features that sets the flag
\* exactly while features remain the call makes at most max(1, N) requests,
\* always has a next step, and returns the N features once each in the
\* order of the layer.
C24_Pagination ==
    /\ Len(out.requests) = Len(out.answers) + (IF fn \in {"waiting", "raised"} THEN 1 ELSE 0)
    /\ \A i \in 1..Len(out.answers) :
          out.answers[i].more = ~(fn = "returned" /\ i = Len(out.answers))
    /\ Len(out.features) = Accumulated(Len(out.answers) + 1)
    /\ \A i \in 1..Len(out.requests) :
          /\ (\A j \in 1..(i - 1) : out.answers[j].count > 0) => out.requests[i] = Accumulated(i)
          /\ i > 1 => out.requests[i] - out.requests[i - 1] =
                         (IF out.answers[i - 1].count > 0 THEN out.answers[i - 1].count
                          ELSE inp.max_page_size)
    /\ HonestLayer =>
          /\ Len(out.requests) <= Max2(1, inp.total)
          /\ fn /= "returned" => ENABLED NextPages
          /\ fn = "returned" => out.features = Batch(0, inp.total)

\* three features, pages of at most two: the honest layer answers with one
\* feature, then two, and the call returns 1, 2, 3 after two requests at
\* the offsets 0 and 1
C24_Witness ==
    /\ fn = "returned"
    /\ inp.total = 3 /\ inp.max_page_size = 2
    /\ HonestLayer
    /\ out.requests = <<0, 1>>
    /\ out.features = <<1, 2, 3>>

(***************************************************************************)
(* AGOLQueryIntersect (agol_util.py): from the geometry argument to the    *)
(* requests sent to the layer.  The argument is a value [form, paths] as   *)
(* above.  A geometry of the list self.geometry is                         *)
(*   [shape |-> "pair",  points |-> <<p>>]    a pair of numbers            *)
(*   [shape |-> "pairs", points |-> path]     a list of pairs              *)
(*   [shape |-> "paths", points |-> path]     a list holding a list of     *)
(*                                            pairs (an element of form C) *)
(* A request is [geometryType, coords, wkid]: coords holds the point of a  *)
(* Point, the paths of a Polyline, the rings of a Polygon.                 *)
(* inp = [role, geometry]; out = [sent, raised]: the requests built one    *)
(* after the other until one cannot be built.                              *)
(***************************************************************************)
Wkid == 4326
MaxEncodeLen == 3

Swapped(pt) == <<pt[2], pt[1]>>

\* [lat, lon] -> [lon, lat] for a pair and for a list of pairs; a list of
\* two other lists has the two exchanged; anything else is left as it is
_swap_coords(g) ==
    IF g.shape = "pair" THEN [g EXCEPT !.points = <<Swapped(g.points[1])>>]
    ELSE IF g.shape = "pairs"
    THEN [g EXCEPT !.points = List([i \in 1..Len(g.points) |-> Swapped(g.points[i])])]
    ELSE IF Len(g.points) = 2 THEN [g EXCEPT !.points = <<g.points[2], g.points[1]>>]
    ELSE g

\* __init__: a list whose elements are all lists is taken as a list of
\* geometries, anything else as one geometry
GeometryList(geom) ==
    IF geom.form = "point"
    THEN <<_swap_coords([shape |-> "pair", points |-> geom.paths[1]])>>
    ELSE IF geom.form = "A"
    THEN List([i \in 1..Len(geom.paths[1]) |->
                  _swap_coords([shape |-> "pair", points |-> <<geom.paths[1][i]>>])])
    ELSE IF geom.form = "B"
    THEN List([i \in 1..Len(geom.paths) |->
                  _swap_coords([shape |-> "pairs", points |-> geom.paths[i]])])
    ELSE List([i \in 1..Len(geom.paths) |->
                  _swap_coords([shape |-> "paths", points |-> geom.paths[i]])])

Request(type, coords) == [geometryType |-> type, coords |-> coords, wkid |-> Wkid]
CannotBuild == [geometryType |-> "raise", coords |-> <<>>, wkid |-> Wkid]

\* a builder that leaves a line open
Ring_Open(line) == line
\* ring = geometry + [first] if first != last else geometry
Ring(line) == IF line[1] /= line[Len(line)] THEN Append(line, line[1]) ELSE line

\* a point, a two-point line, a ring of at least 4 points, or the line as
\* it is; an empty list and a list of lists of pairs give no geometry dict
_build_geometry(g) ==
    IF g.shape = "pair" THEN Request("esriGeometryPoint", <<g.points>>)
    ELSE IF g.shape = "paths" \/ g.points = <<>> THEN CannotBuild
    ELSE IF Len(g.points) = 2 THEN Request("esriGeometryPolyline", <<g.points>>)
    ELSE IF Len(Ring(g.points)) >= 4 THEN Request("esriGeometryPolygon", <<Ring(g.points)>>)
    ELSE Request("esriGeometryPolyline", <<g.points>>)

\* _execute_query for each geometry in turn, up to the first that raises
RECURSIVE SendAll(_, _)
SendAll(gs, sent) ==
    IF gs = <<>> THEN [sent |-> sent, raised |-> FALSE]
    ELSE IF _build_geometry(Head(gs)) = CannotBuild THEN [sent |-> sent, raised |-> TRUE]
    ELSE SendAll(Tail(gs), Append(sent, _build_geometry(Head(gs))))

\* the points of the model: [lat, lon] with lat in 1..2 and lon in 5..7
EncodePoints == {<<lat, lon>> : lat \in 1..2, lon \in 5..7}
EncodePaths(lo, hi) == UNION {[1..n -> EncodePoints] : n \in lo..hi}
\* closed rings of the model: an outer square and a triangle inside it
OuterRing == << <<1, 5>>, <<1, 7>>, <<2, 7>>, <<2, 5>>, <<1, 5>> >>
HoleRing == << <<1, 6>>, <<2, 6>>, <<2, 7>>, <<1, 6>> >>

\* the values _agol_intersect_adaptive hands over: a point; a route as a
\* list of pairs, a list of paths or a list of lists of paths; a chunk of
\* _chunk_route_geometry ([seg], seg of at least 2 points); a polygon as a
\* list of rings; a piece of _shapely_to_boundary_geom (closed rings)
EncodeInputs ==
    {[role |-> "point", geometry |-> [form |-> "point", paths |-> <<<<p>>>>]] :
        p \in EncodePoints}
    \cup {[role |-> "route", geometry |-> [form |-> "A", paths |-> <<List(ps)>>]] :
            ps \in EncodePaths(2, MaxEncodeLen)}
    \cup {[role |-> "route", geometry |-> [form |-> f, paths |-> <<List(ps), List(qs)>>]] :
            f \in {"B", "C"}, ps \in EncodePaths(2, 2), qs \in EncodePaths(2, 2)}
    \cup {[role |-> "chunk", geometry |-> [form |-> "B", paths |-> <<List(ps)>>]] :
            ps \in EncodePaths(2, MaxEncodeLen)}
    \cup {[role |-> r, geometry |-> [form |-> "B", paths |-> rings]] :
            r \in {"polygon", "piece"}, rings \in {<<OuterRing>>, <<OuterRing, HoleRing>>}}

InitEncode ==
    /\ QueryIdle
    /\ fn = "geometry"
    /\ inp \in EncodeInputs
    /\ out = [sent |-> <<>>, raised |-> FALSE]

\* AGOLQueryIntersect(url, layer, geometry, ...)
QueryIntersect ==
    /\ fn = "geometry"
    /\ fn' = "sent"
    /\ out' = SendAll(GeometryList(inp.geometry), <<>>)
    /\ UNCHANGED <<inp, qvars>>

NextEncode == QueryIntersect

SpecEncode == InitEncode /\ [][NextEncode]_vars

SwappedPath(path) == List([i \in 1..Len(path) |-> Swapped(path[i])])
SwappedPaths(paths) == List([i \in 1..Len(paths) |-> SwappedPath(paths[i])])

\* C25 as stated: a route or a route chunk is sent as Polylines of its
\* paths, a polygon or a polygon piece as one Polygon whose rings are its
\* rings, the outer ring first, and a point as one Point; coordinates are
\* [lon, lat] and the spatial reference is 4326.
C25_EncodingMatchesKind ==
    fn = "sent" =>
        /\ ~out.raised
        /\ \A i \in 1..Len(out.sent) : out.sent[i].wkid = Wkid
        /\ inp.role = "point" =>
              out.sent = <<Request("esriGeometryPoint",
                                   <<SwappedPath(inp.geometry.paths[1])>>)>>
        /\ inp.role \in {"route", "chunk"} =>
              /\ \A i \in 1..Len(out.sent) : out.sent[i].geometryType = "esriGeometryPolyline"
              /\ Flatten(List([i \in 1..Len(out.sent) |-> out.sent[i].coords]))
                     = SwappedPaths(inp.geometry.paths)
        /\ inp.role \in {"polygon", "piece"} =>
              out.sent = <<Request("esriGeometryPolygon", SwappedPaths(inp.geometry.paths))>>

\* what is sent: a point as one Point; of a list of paths or rings each
\* element by itself, as a Polyline when it has 2 points or is a closed
\* line of 3, and otherwise as a Polygon of one ring, closed if it was
\* open; of a list of pairs each pair as a Point; a list of lists of paths
\* cannot be sent
C25_WhatIsSent ==
    fn = "sent" =>
        /\ \A i \in 1..Len(out.sent) : out.sent[i].wkid = Wkid /\ Len(out.sent[i].coords) = 1
        /\ out.raised = (inp.geometry.form = "C")
        /\ inp.geometry.form = "C" => out.sent = <<>>
        /\ inp.geometry.form \in {"point", "A"} =>
              /\ Len(out.sent) = Len(inp.geometry.paths[1])
              /\ \A i \in 1..Len(out.sent) :
                    out.sent[i] = Request("esriGeometryPoint",
                                          <<<<Swapped(inp.geometry.paths[1][i])>>>>)
        /\ inp.geometry.form = "B" =>
              /\ Len(out.sent) = Len(inp.geometry.paths)
              /\ \A i \in 1..Len(out.sent) :
                    LET path == SwappedPath(inp.geometry.paths[i])
                        closed == path[1] = path[Len(path)]
                    IN out.sent[i] =
                          IF Len(path) = 2 \/ (Len(path) = 3 /\ closed)
                          THEN Request("esriGeometryPolyline", <<path>>)
                          ELSE Request("esriGeometryPolygon",
                                       <<IF closed THEN path ELSE Append(path, path[1])>>)

\* a chunk of three points in a row is sent as a closed triangle
C25_OpenChunkSentAsPolygon ==
    /\ fn = "sent"
    /\ inp.role = "chunk"
    /\ inp.geometry.paths = << << <<1, 5>>, <<1, 6>>, <<1, 7>> >> >>
    /\ out.sent = <<Request("esriGeometryPolygon",
                            << << <<5, 1>>, <<6, 1>>, <<7, 1>>, <<5, 1>> >> >>)>>

(***************************************************************************)
(* C26: what the merge holds (SpecMatch).                                  *)
(***************************************************************************)
\* the candidates the loop of lines 1704-1712 selected, by index
SelectedOf(cands) == SelectedIndices(cands, out.bop_matches, out.eop_matches)
Selected == SelectedOf(Candidates)
SelectedCount(cands, sel, path) ==
    SeqSum(List([i \in 1..Len(cands) |->
                    IF i \in sel THEN Count(cands[i].clipped.paths, path) ELSE 0]))
CandidatePaths(cands) == UNION {Range(cands[i].clipped.paths) : i \in 1..Len(cands)}
\* the merged paths are the clipped paths of the selected candidates, each
\* as often as the selected candidates hold it
MergedFromSelected(cands, sel) ==
    /\ ~out.merged_geometry.none
    /\ \A path \in CandidatePaths(cands) \cup Range(out.merged_geometry.paths) :
          Count(out.merged_geometry.paths, path) = SelectedCount(cands, sel, path)
\* the OBJECTIDs of the selected candidates that have one, in their order
IdsFromSelected(cands, sel) ==
    Flatten(List([i \in 1..Len(cands) |->
                     IF i \in sel /\ Oid(cands[i].feature) /= NoOid
                     THEN <<Oid(cands[i].feature)>> ELSE <<>>]))
ThroughBothPoints == << <<Pt(1, 1), Pt(3, 3)>> >>
ScenarioOneRoute ==
    /\ fn = "returned"
    /\ Len(inp.features) = 1
    /\ inp.features[1].geometry = ThroughBothPoints
    /\ Oid(inp.features[1]) /= NoOid
    /\ inp.bop_pair = <<Whole2(1), Whole2(1)>> /\ inp.eop_pair = <<Whole2(3), Whole2(3)>>

\* C26 as stated: on success the merged geometry holds exactly the clipped
\* paths of the selected candidates and selected ids has one id for every
\* selected candidate.
C26_OneIdPerSelected ==
    (fn = "returned" /\ out.success) =>
        LET cands == Candidates
            sel == SelectedOf(cands)
        IN /\ MergedFromSelected(cands, sel)
           /\ Len(out.selected_objectids) = Cardinality(sel)

\* C26: on success at least one candidate is selected, the merged geometry
\* holds exactly the clipped paths of the selected candidates, each path as
\* often as they hold it, and selected ids lists, in the order of the
\* candidates, the OBJECTID of every selected candidate that has one; one
\* route with an OBJECTID through both points gives one selected id and its
\* clipped path as the merged path.
C26_MergeContent ==
    /\ (fn = "returned" /\ out.success) =>
          LET cands == Candidates
              sel == SelectedOf(cands)
          IN /\ sel /= {}
             /\ MergedFromSelected(cands, sel)
             /\ out.selected_objectids = IdsFromSelected(cands, sel)
    /\ ScenarioOneRoute =>
          /\ out.success
          /\ Len(out.selected_objectids) = 1
          /\ out.merged_geometry.paths = Candidates[1].clipped.paths
          /\ out.merged_geometry.paths = ThroughBothPoints

\* two candidates are selected and one of them has no OBJECTID: two merged
\* paths, one selected id
C26_Witness ==
    /\ fn = "returned"
    /\ out.success
    /\ Cardinality(Selected) = 2
    /\ Len(out.merged_geometry.paths) = 2
    /\ out.selected_objectids = <<"7">>

C26_ScenarioReached == ScenarioOneRoute /\ inp.tolerance_m = 0 /\ out.selected_objectids = <<"7">>

(***************************************************************************)
(* C27..C30: the ladders of _agol_intersect_adaptive (Spec).               *)
(***************************************************************************)
\* the ladder value of every attempt differs from the one before: smaller
\* on the route ladder, larger on the polygon ladder
LadderMovesOn ==
    \A i \in 1..(Len(attempts) - 1) :
        IF RouteMode THEN attempts[i + 1] < attempts[i] ELSE attempts[i + 1] > attempts[i]

\* C27 as stated: whatever the starting value and the floor or ceiling are,
\* a ladder whose calls keep failing never makes the same attempt again: the
\* values of its attempts move strictly towards the floor or ceiling, so
\* that it ends after finitely many attempts.
C27_LadderEnds == LadderMovesOn /\ pc /= "cut"

\* what holds: the polygon ladder, and the route ladder with a floor of at
\* least 1, move on with every attempt and end in a return or a raise
\* within the number of halvings or doublings that fit between the
\* starting value and the floor or ceiling
C27_LadderEndsAboveZero ==
    (PolygonMode \/ (RouteMode /\ session_state.min_points >= 1)) =>
        /\ LadderMovesOn
        /\ pc /= "cut"
        /\ (RouteMode /\ attempts /= <<>>) =>
              session_state.max_points >= Pow2(Len(attempts) - 1)
        /\ (PolygonMode /\ attempts /= <<>>) =>
              FirstSlices(session_state.initial) * Pow2(Len(attempts) - 1)
                  <= session_state.max_slices

\* floor 0, layer refusing every request: after 5, 2, 1 the route ladder
\* tries 0 points per chunk again and again
C27_LadderStuckAtZero ==
    /\ pc = "route"
    /\ session_state.min_points = 0
    /\ remote.limit = 0
    /\ current = 0
    /\ Len(attempts) >= 6
    /\ attempts[Len(attempts)] = 0 /\ attempts[Len(attempts) - 1] = 0

\* C28 as stated: a result returned after the full call failed comes from
\* an attempt that made at least one call to the layer, all of them
\* successful; a polygon that gives no pieces is not reported as a
\* successful empty result.
C28_ReturnBackedByCalls ==
    (pc = "returned" /\ full_call = "raised") =>
        /\ calls /= <<>>
        /\ \A k \in 1..Len(calls) : calls[k].ok

\* what holds: every call of the returning attempt succeeded, and a route
\* attempt makes at least one call
C28_RouteReturnBackedByCalls ==
    (pc = "returned" /\ full_call = "raised") =>
        /\ \A k \in 1..Len(calls) : calls[k].ok
        /\ RouteMode => calls /= <<>>
        /\ calls = <<>> =>
              /\ _slice_polygon_into_equal_parts(geometry, slices).pieces = <<>>
              /\ outcome = Returned(<<>>, <<>>)

\* a polygon without area, the full call refused: the first attempt of the
\* polygon ladder finds no piece and returns the empty result without a call
C28_EmptySuccess ==
    /\ pc = "returned"
    /\ full_call = "raised"
    /\ PolygonMode
    /\ calls = <<>>
    /\ Len(attempts) = 1
    /\ outcome = Returned(<<>>, <<>>)


\* every call recorded for the running attempt succeeded
AllCallsOk == \A k \in 1..Len(calls) : calls[k].ok
\* an attempt was given up at a failed call
AttemptGivenUp ==
    /\ attempts /= <<>>
    /\ calls /= <<>>
    /\ ~calls[Len(calls)].ok

\* C29: the merged lists hold what the calls of the running attempt returned
\* and nothing else; a result returned by an attempt is the merge of the
\* answers of all its calls, one per chunk, every one successful; an attempt
\* with a failed call stops at that call, the chunks after it are not
\* queried, and an error raised after it carries no ids and no labels.
C29_AttemptAtomicity ==
    /\ pc \in {"route_calls", "polygon_calls"} =>
          /\ AllCallsOk
          /\ Len(calls) = idx
          /\ merged_ids = CallIds
          /\ merged_labels_list = CallLabels
    /\ ReturnedByAttempt =>
          /\ AllCallsOk
          /\ Len(calls) = Len(geoms)
          /\ outcome = MergedResult(CallIds, CallLabels)
    /\ (pc \in {"route", "polygon", "raised", "cut"} /\ AttemptGivenUp) =>
          /\ Len(calls) = idx + 1
          /\ Len(calls) <= Len(geoms)
          /\ \A k \in 1..(Len(calls) - 1) : calls[k].ok
          /\ outcome.kind /= "result"
          /\ outcome.list_values = <<>> /\ outcome.string_values = <<>>

\* a flaky layer: an attempt was given up, a later one returned ids
C29_Witness ==
    /\ ReturnedByAttempt
    /\ remote.flaky
    /\ Len(attempts) >= 2
    /\ Len(calls) >= 2
    /\ outcome.list_values /= <<>>

\* an attempt given up at its second call, with ids from the first and a
\* chunk that was never queried
C29_PartialDiscarded ==
    /\ pc = "route"
    /\ AttemptGivenUp
    /\ Len(calls) = 2
    /\ calls[1].ids /= <<>>
    /\ Len(geoms) >= 3
    /\ merged_ids /= <<>>


\* no call of the run was made for a piece of a sliced polygon
NoPieceQueried == \A k \in 1..Len(calls) : calls[k].kind /= "piece"
\* the polygon ladder was not entered
NoSlicing == slices = 0 /\ pc \notin {"polygon", "polygon_calls"} /\ NoPieceQueried

\* C30: a geometry that _extract_polygon_rings accepts is accepted by
\* _extract_route_paths; the polygon ladder runs only with route chunking
\* disabled, polygon chunking enabled and a polygon-like geometry; with
\* route chunking enabled, a failed full call of a route-like geometry (so
\* of every polygon-like one) leads to the route ladder alone: no slicing,
\* no call for a piece, and an error raised at the end is the route
\* ladder's.
C30_ModePrecedence ==
    /\ \A g \in Geometries : _extract_polygon_rings(g).ok => _extract_route_paths(g).ok
    /\ is_poly => is_route
    /\ ~(RouteMode /\ PolygonMode)
    /\ (pc \in {"polygon", "polygon_calls"} \/ slices /= 0 \/ ~NoPieceQueried) =>
          /\ ~enable_route_chunking
          /\ enable_polygon_chunking
          /\ is_poly
          /\ current = 0
    /\ pc \in {"route", "route_calls"} => (enable_route_chunking /\ is_route)
    /\ (enable_route_chunking /\ is_route /\ full_call = "raised") =>
          /\ NoSlicing
          /\ pc \in {"route", "route_calls", "returned", "raised", "cut"}
          /\ pc = "returned" => (attempts /= <<>> /\ calls /= <<>>)
          /\ pc = "raised" => outcome = Raised("ChunkingExhausted", RouteErrorSize)

\* both modes enabled, a rectangle's ring, the full call refused: the result
\* comes from the route ladder's chunks
C30_Witness ==
    /\ enable_route_chunking
    /\ enable_polygon_chunking
    /\ geometry = [form |-> "A", paths |-> <<RectRing>>]
    /\ is_poly
    /\ full_call = "raised"
    /\ ReturnedByAttempt
    /\ Len(calls) >= 2
    /\ \A k \in 1..Len(calls) : calls[k].kind = "chunk"
    /\ slices = 0

\* route chunking disabled: the same ring is sliced
C30_SlicedWhenRouteDisabled ==
    /\ ~enable_route_chunking
    /\ geometry = [form |-> "A", paths |-> <<RectRing>>]
    /\ ReturnedByAttempt
    /\ \A k \in 1..Len(calls) : calls[k].kind = "piece"
    /\ Len(calls) >= 2

\* a geometry of nested routes is route-like and not polygon-like
C30_RouteLikeOnly ==
    /\ geometry.form = "C"
    /\ is_route /\ ~is_poly
    /\ enable_polygon_chunking /\ ~enable_route_chunking
    /\ pc = "raised"
    /\ outcome = Raised("RemoteError", 0)
====
